---- MODULE Spec2Model ----
(***************************************************************************)
(* A model of the claude-cortex memory engine: the memories table with its *)
(* full-text index and triggers, memory links, the control state, the size *)
(* guard, and the store's CRUD operations (src/src/memory/store.ts).       *)
(*                                                                         *)
(* Scores (salience, decayed score, relevance) are integers in thousandths *)
(* (1000 = 1.0).  Time is counted in ticks of 200 hours.                     *)
(***************************************************************************)
EXTENDS Integers, Sequences, FiniteSets, TLC

VARIABLES
    memories,        \* table memories: id -> row
    memories_fts,    \* the FTS5 index: a set of entries [rowid, title, content, tags]
    memory_links,    \* table memory_links: a set of rows
    nextId,          \* AUTOINCREMENT sequence of memories.id
    now,             \* CURRENT_TIMESTAMP / Date.now(), in ticks
    paused,          \* control state flag
    dbSize,          \* size of the database file in bytes (statSync)
    entities,        \* table entities: id -> row
    triples,         \* table triples: a set of rows
    memory_entities, \* table memory_entities: a set of rows
    nextEntityId,    \* rowid sequence of entities.id
    response,        \* what the last call returned to its caller
    inflight,        \* the call each further process sharing the file is in
    events,          \* the events the last step published on the event bus
    embeddingPipeline, \* generator.ts: the loaded model, or NULL
    isLoading,       \* generator.ts: the loading flag
    loadPromise,     \* generator.ts: the promise of the load in flight, or NULL
    loads,           \* the promises pipeline() has returned, in order: their states
    callers,         \* the generateEmbedding call each caller is in
    clients,         \* visualization-server.ts: the set of tracked WebSockets
    sockets,         \* each WebSocket: its readyState and the frames sent on it
    bus,             \* every event published on the event bus, in publish order
    stopHook         \* stop-hook.js: the run of the hook process for the last stop

store == <<memories, memories_fts, memory_links, nextId>>
graph == <<entities, triples, memory_entities, nextEntityId>>
control == <<paused, dbSize>>
embedding == <<embeddingPipeline, isLoading, loadPromise, loads, callers>>
websocket == <<clients, sockets, bus>>
vars == <<memories, memories_fts, memory_links, nextId, now, paused, dbSize,
          entities, triples, memory_entities, nextEntityId, response, inflight, events,
          embeddingPipeline, isLoading, loadPromise, loads, callers,
          clients, sockets, bus, stopHook>>

----------------------------------------------------------------------------
(* Bounds of the model. *)

\* memories ever inserted (ids 1..MaxId)
MaxId == 2
\* the clock stops at MaxTime ticks
MaxTime == 1
\* accessMemory is not called on a row already accessed MaxAccess times
MaxAccess == 2
\* processExtractionResult is not run once an entity has MaxMentions mentions
MaxMentions == 2
\* processes, besides the server, that have the database file open
NumProcs == 2
\* searches ask for 1..MaxLimit results
MaxLimit == 2
\* the short_term rows one sweep reads in the scaled store
ScaledCleanupLimit == 1
\* callers of generateEmbedding, and model loads pipeline() is asked for
NumCallers == 2
MaxLoads == 2
\* entity rowids handed out before the graph is left alone
MaxEntityId == 3
\* WebSocket connections made, and events published while they are watched
NumConns == 2
MaxEvents == 3

\* 1.0 in thousandths
SCALE == 1000

----------------------------------------------------------------------------
(* Program constants. *)

MAX_DB_SIZE == 104857600
MAX_CONTENT_SIZE == 10240
CleanupLimit == 1000
NULL == "NULL"

MemoryTypes == {"short_term", "long_term", "episodic"}

\* DEFAULT_CONFIG (src/memory/types.ts is not among the sources; the spec gives
\* the defaults: consolidation threshold 0.7, decay floor 0.1)
consolidationThreshold == 700
salienceThreshold == 100

----------------------------------------------------------------------------
(* Helpers. *)

Has(rec, f) == f \in DOMAIN rec

Min(a, b) == IF a < b THEN a ELSE b

RemoveKey(f, k) == [i \in DOMAIN f \ {k} |-> f[i]]

\* JSON.stringify(tags) / JSON.parse(row.tags): the stored text is represented by
\* the sequence of tags it encodes
TagSet(tags) == {tags[i] : i \in 1..Len(tags)}

NoRow == [id |-> 0]

----------------------------------------------------------------------------
(* Schema: CHECK constraints, the FTS triggers, the foreign keys.           *)

\* mutant: the table has no CHECK on salience
CheckRow_type_only(row) ==
    row.type \in MemoryTypes

\* CHECK(type IN (...)) and CHECK(salience >= 0 AND salience <= 1) of table memories
CheckRow(row) ==
    /\ row.type \in MemoryTypes
    /\ row.salience >= 0
    /\ row.salience <= SCALE

FtsEntry(row) ==
    [rowid |-> row.id, title |-> row.title, content |-> row.content, tags |-> row.tags]

\* trigger memories_ai: AFTER INSERT, index the new row
memories_ai(fts, new) == fts \cup {FtsEntry(new)}

\* trigger memories_ad: AFTER DELETE, the FTS5 'delete' command with the old values
memories_ad(fts, old) == fts \ {FtsEntry(old)}

\* a plausible slip: the update trigger indexes the new values without the
\* 'delete' of the old ones
memories_au_keeps_old(fts, old, new) == fts \cup {FtsEntry(new)}

\* trigger memories_au: AFTER UPDATE, 'delete' the old values, index the new ones
memories_au(fts, old, new) == (fts \ {FtsEntry(old)}) \cup {FtsEntry(new)}

\* memory_links: FOREIGN KEY (source_id) / (target_id) ... ON DELETE CASCADE
\* mutant: only the source_id foreign key cascades
LinksCascade_source_only(links, ids) ==
    {l \in links : l.source_id \notin ids}

LinksCascade(links, ids) ==
    {l \in links : l.source_id \notin ids /\ l.target_id \notin ids}

\* memory_links: both foreign keys must name a memory; UNIQUE(source_id, target_id)
LinkInsertOk(links, mems, l) ==
    /\ l.source_id \in DOMAIN mems
    /\ l.target_id \in DOMAIN mems
    /\ ~ \E k \in links : k.source_id = l.source_id /\ k.target_id = l.target_id

----------------------------------------------------------------------------
(* Size guard and control state.                                            *)

checkDatabaseSize(size) == [size |-> size, blocked |-> size > MAX_DB_SIZE]

isDatabaseBlocked == checkDatabaseSize(dbSize).blocked

isPaused == paused

----------------------------------------------------------------------------
(* Salience, decay and reinforcement.                                       *)

\* Math.pow(rate, hours) for one tick of 200 hours, in thousandths:
\* 0.995^200, 0.9995^200, 0.998^200
DecayPerTick(type) ==
    CASE type = "short_term" -> 367
      [] type = "long_term"  -> 905
      [] type = "episodic"   -> 670
      [] OTHER               -> 367

RECURSIVE calculateDecayFactor(_, _)
calculateDecayFactor(type, age) ==
    IF age <= 0 THEN SCALE
    ELSE (calculateDecayFactor(type, age - 1) * DecayPerTick(type)) \div SCALE

\* decayed(t) = salience * r^(hours since lastAccessed)
calculateDecayedScore(memory, t) ==
    (memory.salience * calculateDecayFactor(memory.type, t - memory.last_accessed)) \div SCALE

\* boost(type, accessCount): shrinks with the access count, larger for short_term
ReinforcementBoost(type, accessCount) ==
    (IF type = "short_term" THEN 100 ELSE 50) \div (1 + accessCount)

\* new salience = min(1, salience + boost(type, accessCount))
calculateReinforcementBoost(memory) ==
    Min(SCALE, memory.salience + ReinforcementBoost(memory.type, memory.access_count))

\* calculateSalience: keyword dictionaries over title and content
calculateSalience(input) ==
    IF input.content.text = "architecture decision" THEN 850 ELSE 400

suggestCategory(input) == "note"

extractTags(input) == IF Has(input, "tags") THEN input.tags ELSE <<>>

----------------------------------------------------------------------------
(* The memory store (store.ts).                                             *)

\* content is [text, length, marker]: the first `length` characters of `text`,
\* followed by the truncation marker when `marker` is set
truncateContent(content) ==
    IF content.length > MAX_CONTENT_SIZE
    THEN [text |-> content.text, length |-> MAX_CONTENT_SIZE, marker |-> TRUE]
    ELSE content

getMemoryById(id) == IF id \in DOMAIN memories THEN memories[id] ELSE NoRow

\* the Memory object built from a row; nothing under src writes the column
\* decayed_score, so decayedScore falls back to the salience
rowToMemory(row) ==
    [id |-> row.id, type |-> row.type, category |-> row.category, title |-> row.title,
     content |-> row.content, project |-> row.project, tags |-> row.tags,
     salience |-> row.salience, accessCount |-> row.access_count,
     lastAccessed |-> row.last_accessed,
     decayedScore |-> IF Has(row, "decayed_score") /\ row.decayed_score \notin {NULL, 0}
                      THEN row.decayed_score ELSE row.salience]

\* triples.source_memory_id and memory_entities.memory_id: ON DELETE CASCADE
TriplesCascade(ts, ids) == {t \in ts : t.source_memory_id \notin ids}

MemoryEntitiesCascade(mes, ids) == {e \in mes : e.memory_id \notin ids}

\* mutant: every event is published as memory_updated
Event_always_updated(type, id) == [type |-> "memory_updated", id |-> id]

\* an event on the bus: its kind and the id of the memory it is about
Event(type, id) == [type |-> type, id |-> id]

\* what a call hands back: the id of the row it returns (0 for none), whether it
\* succeeded, the kind of error, and the count a bulk operation returns
Reply(op, id, ok, error) ==
    [op |-> op, id |-> id, ok |-> ok, error |-> error, count |-> 0]

\* the row addMemory inserts (column defaults: access_count 0, last_accessed now)
NewRow(input, id, t) ==
    LET salience == IF Has(input, "salience") THEN input.salience ELSE calculateSalience(input)
        category == IF Has(input, "category") THEN input.category ELSE suggestCategory(input)
        type     == IF Has(input, "type") THEN input.type
                    ELSE IF salience >= consolidationThreshold THEN "long_term" ELSE "short_term"
    IN  [id |-> id, type |-> type, category |-> category, title |-> input.title,
         content |-> truncateContent(input.content),
         project |-> IF Has(input, "project") /\ input.project # "" THEN input.project ELSE NULL,
         tags |-> extractTags(input), salience |-> salience,
         access_count |-> 0, last_accessed |-> t]

\* INSERT INTO memories ... (with trigger memories_ai), then getMemoryById
InsertMemory(op, input) ==
    LET row == NewRow(input, nextId, now) IN
    IF CheckRow(row)
    THEN /\ memories' = memories @@ (nextId :> row)
         /\ memories_fts' = memories_ai(memories_fts, row)
         /\ nextId' = nextId + 1
         /\ events' = <<Event("memory_created", nextId)>>
         /\ response' = Reply(op, nextId, TRUE, "none")
    ELSE /\ UNCHANGED <<memories, memories_fts, nextId>>
         /\ events' = <<>>
         /\ response' = Reply(op, 0, FALSE, "constraint")

addMemory(input) ==
    /\ nextId <= MaxId
    /\ InsertMemory("addMemory", input)
    /\ UNCHANGED <<memory_links, now, control, graph, inflight, embedding, websocket, stopHook>>

\* the SET clause updateMemory builds from the fields the patch names
PatchFields == {"title", "content", "type", "category", "project", "tags", "salience", "metadata"}

\* the row after UPDATE memories SET <the patch's fields> WHERE id = ?
PatchRow_keeps_existing(existing, updates) == existing
PatchRow(existing, updates) ==
    [f \in DOMAIN existing |->
        IF f \in PatchFields /\ Has(updates, f) THEN updates[f] ELSE existing[f]]

\* the UPDATE updateMemory builds from the patch, and what it returns
UpdateStatement(id, updates) ==
    LET existing == getMemoryById(id)
        new == PatchRow(existing, updates)
    IN  IF existing = NoRow
        THEN /\ UNCHANGED <<memories, memories_fts>>
             /\ events' = <<>>
             /\ response' = Reply("updateMemory", id, FALSE, "not_found")
        ELSE IF DOMAIN updates \cap PatchFields = {}
        THEN /\ UNCHANGED <<memories, memories_fts>>
             /\ events' = <<>>
             /\ response' = Reply("updateMemory", id, TRUE, "none")
        ELSE IF CheckRow(new)
        THEN /\ memories' = [memories EXCEPT ![id] = new]
             /\ memories_fts' = memories_au(memories_fts, existing, new)
             /\ events' = <<Event("memory_updated", id)>>
             /\ response' = Reply("updateMemory", id, TRUE, "none")
        ELSE /\ UNCHANGED <<memories, memories_fts>>
             /\ events' = <<>>
             /\ response' = Reply("updateMemory", id, FALSE, "constraint")

updateMemory(id, updates) ==
    /\ UpdateStatement(id, updates)
    /\ UNCHANGED <<memory_links, nextId, now, control, graph, inflight, embedding, websocket, stopHook>>

RECURSIVE FtsDeleteAll(_, _)
FtsDeleteAll(fts, rows) ==
    IF rows = {} THEN fts
    ELSE LET r == CHOOSE x \in rows : TRUE
         IN  FtsDeleteAll(memories_ad(fts, r), rows \ {r})

\* DELETE FROM memories WHERE id IN ids: trigger memories_ad per row, cascades
DeleteRows(ids) ==
    LET gone == ids \cap DOMAIN memories IN
    /\ memories' = [i \in DOMAIN memories \ gone |-> memories[i]]
    /\ memories_fts' = FtsDeleteAll(memories_fts, {memories[i] : i \in gone})
    /\ memory_links' = LinksCascade(memory_links, gone)
    /\ triples' = TriplesCascade(triples, gone)
    /\ memory_entities' = MemoryEntitiesCascade(memory_entities, gone)

deleteMemory(id) ==
    LET memory == getMemoryById(id) IN
    /\ DeleteRows({id})
    /\ events' = IF memory # NoRow THEN <<Event("memory_deleted", id)>> ELSE <<>>
    /\ response' = Reply("deleteMemory", id, memory # NoRow,
                         IF memory # NoRow THEN "none" ELSE "not_found")
    /\ UNCHANGED <<nextId, now, control, entities, nextEntityId, inflight, embedding, websocket, stopHook>>

\* a plausible slip: access_count is set to 1 instead of being incremented
AccessUpdate_sets_count(row, newSalience, t) ==
    [row EXCEPT !.access_count = 1,
                !.last_accessed = t,
                !.salience = newSalience]

\* UPDATE memories SET access_count = access_count + 1,
\*                     last_accessed = CURRENT_TIMESTAMP, salience = ? WHERE id = ?
AccessUpdate(row, newSalience, t) ==
    [row EXCEPT !.access_count = row.access_count + 1,
                !.last_accessed = t,
                !.salience = newSalience]

accessMemory(id) ==
    LET memory == getMemoryById(id)
        newSalience == calculateReinforcementBoost(memory)
        updated == AccessUpdate(memory, newSalience, now)
    IN  /\ memory # NoRow => memory.access_count < MaxAccess
        /\ IF memory = NoRow
           THEN /\ UNCHANGED <<memories, memories_fts>>
                /\ events' = <<>>
                /\ response' = Reply("accessMemory", id, FALSE, "not_found")
           ELSE /\ memories' = [memories EXCEPT ![id] = updated]
                /\ memories_fts' = memories_au(memories_fts, memory, updated)
                /\ events' = <<Event("memory_accessed", id)>>
                /\ response' = Reply("accessMemory", id, TRUE, "none")
        /\ UNCHANGED <<memory_links, nextId, now, control, graph, inflight, embedding, websocket, stopHook>>

\* UPDATE memories SET type = 'long_term' WHERE id = ? AND type = 'short_term'
promoteMemory(id) ==
    LET memory == getMemoryById(id)
        promoted == [memory EXCEPT !.type = "long_term"]
    IN  /\ IF memory # NoRow /\ memory.type = "short_term"
           THEN /\ memories' = [memories EXCEPT ![id] = promoted]
                /\ memories_fts' = memories_au(memories_fts, memory, promoted)
                /\ events' = <<>>
                /\ response' = Reply("promoteMemory", id, TRUE, "none")
           ELSE /\ UNCHANGED <<memories, memories_fts>>
                /\ events' = <<>>
                /\ response' = Reply("promoteMemory", id, memory # NoRow,
                                     IF memory # NoRow THEN "none" ELSE "not_found")
        /\ UNCHANGED <<memory_links, nextId, now, control, graph, inflight, embedding, websocket, stopHook>>

\* ORDER BY salience DESC, last_accessed DESC (rows that tie come in rowid order)
RowBefore(a, b) ==
    \/ a.salience > b.salience
    \/ a.salience = b.salience /\ a.last_accessed > b.last_accessed
    \/ a.salience = b.salience /\ a.last_accessed = b.last_accessed /\ a.id < b.id

RECURSIVE OrderBySalience(_)
OrderBySalience(rows) ==
    IF rows = {} THEN <<>>
    ELSE LET first == CHOOSE r \in rows : \A o \in rows \ {r} : RowBefore(r, o)
         IN  <<first>> \o OrderBySalience(rows \ {first})

\* LIMIT n
Limit(seq, n) == SubSeq(seq, 1, Min(n, Len(seq)))

Rows == {memories[i] : i \in DOMAIN memories}

getMemoriesByType(type, limit) ==
    Limit(OrderBySalience({r \in Rows : r.type = type}), limit)

\* the ids cleanupDecayedMemories collects in toDelete
DecayedIds(shortTerm, t) ==
    {shortTerm[k].id : k \in {j \in 1..Len(shortTerm) :
                                calculateDecayedScore(shortTerm[j], t) < salienceThreshold}}

\* the sweep, reading at most `limit` short_term rows
CleanupSweep(limit) ==
    LET shortTerm == getMemoriesByType("short_term", limit)
        toDelete == DecayedIds(shortTerm, now)
    IN  /\ DeleteRows(toDelete)
        /\ events' = <<>>
        /\ response' = [Reply("cleanupDecayedMemories", 0, TRUE, "none")
                           EXCEPT !.count = Cardinality(toDelete)]
        /\ UNCHANGED <<nextId, now, control, entities, nextEntityId, inflight, embedding, websocket, stopHook>>

cleanupDecayedMemories == CleanupSweep(CleanupLimit)

\* the sweep on a store scaled down by CleanupLimit / ScaledCleanupLimit: a
\* store of more than ScaledCleanupLimit short_term rows stands for one of
\* more than CleanupLimit
cleanupDecayedMemories_scaled == CleanupSweep(ScaledCleanupLimit)

----------------------------------------------------------------------------
(* Search (store.ts searchMemories) and the remember tool.                  *)

\* query.split(/\s+/): the whitespace-separated terms of the texts in use
SplitTerms(text) ==
    CASE text = "Use PostgreSQL"        -> <<"Use", "PostgreSQL">>
      [] text = "Use SQLite"            -> <<"Use", "SQLite">>
      [] text = "Use MySQL"             -> <<"Use", "MySQL">>
      [] text = "Use better-sqlite3"    -> <<"Use", "better-sqlite3">>
      [] text = "Always lint"           -> <<"Always", "lint">>
      [] text = "decided to use"        -> <<"decided", "to", "use">>
      [] text = "architecture decision" -> <<"architecture", "decision">>
      [] OTHER                          -> <<text>>

\* the terms that hold one of - : * ^ ( ) "
SpecialTerms == {"better-sqlite3"}

\* escapeFts5Query: a term with a special character is wrapped in quotes
escapeFts5Query(query) ==
    LET terms == SplitTerms(query) IN
    [k \in 1..Len(terms) |-> [term |-> terms[k], quoted |-> terms[k] \in SpecialTerms]]

\* the tokens the FTS5 tokenizer makes of one term (lower case, split at
\* punctuation)
Tokenize(term) ==
    CASE term = "Use"            -> {"use"}
      [] term = "PostgreSQL"     -> {"postgresql"}
      [] term = "SQLite"         -> {"sqlite"}
      [] term = "MySQL"          -> {"mysql"}
      [] term = "better-sqlite3" -> {"better", "sqlite3"}
      [] term = "Always"         -> {"always"}
      [] OTHER                   -> {term}

TokensOf(text) == UNION {Tokenize(SplitTerms(text)[k]) : k \in 1..Len(SplitTerms(text))}

\* the tokens indexed for one entry of memories_fts (title, content, tags)
EntryTokens(e) ==
    TokensOf(e.title) \cup TokensOf(e.content.text) \cup UNION {Tokenize(t) : t \in TagSet(e.tags)}

\* memories_fts MATCH ?: every term of the query occurs in the entry; an
\* unquoted term with a special character is a syntax error and matches nothing
FtsMatch(e, escaped) ==
    \A k \in 1..Len(escaped) :
        /\ escaped[k].quoted \/ escaped[k].term \notin SpecialTerms
        /\ Tokenize(escaped[k].term) \subseteq EntryTokens(e)

\* fts.rank, in thousandths: the bm25 of FTS5, negative and never 0 for a
\* match. A term found in n of the N entries weighs ln((N-n+0.5)/(n+0.5)),
\* taken as 0.000001 when that is not positive.
FtsRank(fts, escaped) ==
    LET N == Cardinality(fts)
        tokens == UNION {Tokenize(escaped[k].term) : k \in 1..Len(escaped)}
        n(t) == Cardinality({e \in fts : t \in EntryTokens(e)})
        idf(t) == IF N - n(t) > n(t)
                  THEN ((N - n(t) - n(t)) * SCALE) \div (N - n(t))
                  ELSE 0
        RECURSIVE Sum(_)
        Sum(S) == IF S = {} THEN 0
                  ELSE LET t == CHOOSE x \in S : TRUE IN idf(t) + Sum(S \ {t})
    IN  0 - (1 + Sum(tokens))

Abs(x) == IF x < 0 THEN 0 - x ELSE x

\* priority = 0.4 decayed + 0.3 salience + 0.2 log1p(accessCount)/k + 0.1 type weight
calculatePriority(memory, t) ==
    (400 * calculateDecayedScore(memory, t) + 300 * memory.salience) \div SCALE
    + (CASE memory.access_count = 0 -> 0 [] memory.access_count = 1 -> 30
         [] memory.access_count = 2 -> 48 [] OTHER -> 60)
    + (CASE memory.type = "long_term" -> 100 [] memory.type = "episodic" -> 70
         [] OTHER -> 50)

\* the WHERE clause: the match and the filters
SearchWhere(row, options) ==
    /\ (Has(options, "query") /\ options.query # "")
          => FtsMatch(FtsEntry(row), escapeFts5Query(options.query))
    /\ (Has(options, "project") /\ options.project # "") => row.project = options.project
    /\ Has(options, "category") => row.category = options.category
    /\ Has(options, "type") => row.type = options.type
    /\ (Has(options, "minSalience") /\ options.minSalience # 0)
          => row.salience >= options.minSalience
    /\ (Has(options, "tags") /\ Len(options.tags) > 0)
          => TagSet(options.tags) \cap TagSet(row.tags) # {}

\* ftsScore * 0.4 + decayedScore * 0.4 + calculatePriority(memory) * 0.2
relevanceScore(row, rank, t) ==
    LET ftsScore == IF rank # 0 THEN Abs(rank) \div 100 ELSE 500
    IN  (ftsScore * 400 + calculateDecayedScore(row, t) * 400
         + calculatePriority(row, t) * 200) \div SCALE

\* results.sort((a, b) => b.relevanceScore - a.relevanceScore): stable
RECURSIVE SortByRelevance(_)
SortByRelevance(results) ==
    IF Len(results) = 0 THEN <<>>
    ELSE LET best == CHOOSE i \in 1..Len(results) :
                        /\ \A j \in 1..Len(results) :
                              results[j].relevanceScore <= results[i].relevanceScore
                        /\ \A j \in 1..(i - 1) :
                              results[j].relevanceScore < results[i].relevanceScore
         IN  <<results[best]>> \o
             SortByRelevance(SubSeq(results, 1, best - 1)
                             \o SubSeq(results, best + 1, Len(results)))

\* the list searchMemories returns: [id, relevanceScore] per result
Search(options) ==
    LET limit == IF Has(options, "limit") /\ options.limit # 0 THEN options.limit ELSE 20
        useFts == Has(options, "query") /\ options.query # ""
        rank == IF useFts THEN FtsRank(memories_fts, escapeFts5Query(options.query)) ELSE 0
        rows == Limit(OrderBySalience({r \in Rows : SearchWhere(r, options)}), limit)
        results == [k \in 1..Len(rows) |->
                      [id |-> rows[k].id,
                       decayedScore |-> calculateDecayedScore(rows[k], now),
                       relevanceScore |-> relevanceScore(rows[k], rank, now)]]
        keep(r) == (Has(options, "includeDecayed") /\ options.includeDecayed)
                   \/ r.decayedScore >= salienceThreshold
    IN  SortByRelevance(SelectSeq(results, keep))

searchMemories(options) ==
    /\ events' = <<>>
    /\ response' = [op |-> "searchMemories", id |-> 0, ok |-> TRUE, error |-> "none",
                    count |-> Len(Search(options)),
                    results |-> [k \in 1..Len(Search(options)) |-> Search(options)[k].id]]
    /\ UNCHANGED <<store, now, control, graph, inflight, embedding, websocket, stopHook>>

\* importanceMap of the remember tool
importanceMap(importance) ==
    CASE importance = "low" -> 300 [] importance = "normal" -> 500
      [] importance = "high" -> 800 [] importance = "critical" -> SCALE

\* the remember tool: look for a near duplicate by title, else addMemory
executeRemember(input) ==
    LET existing == Search([f \in ({"query", "limit"} \cup (DOMAIN input \cap {"project"})) |->
                               IF f = "query" THEN input.title
                               ELSE IF f = "limit" THEN 3 ELSE input.project])
        passed == DOMAIN input \cap {"title", "content", "category", "type", "project", "tags"}
        addInput == [f \in passed \cup (IF Has(input, "importance") THEN {"salience"} ELSE {}) |->
                        IF f = "salience" THEN importanceMap(input.importance) ELSE input[f]]
    IN  /\ nextId <= MaxId
        /\ IF Len(existing) > 0 /\ existing[1].relevanceScore > 900
           THEN /\ UNCHANGED <<memories, memories_fts, nextId>>
                /\ events' = <<>>
                /\ response' = Reply("executeRemember", existing[1].id, TRUE, "none")
           ELSE InsertMemory("executeRemember", addInput)
        /\ UNCHANGED <<memory_links, now, control, graph, inflight, embedding, websocket, stopHook>>

\* detectGlobalPattern: the category, a keyword in the content, or a tag marks
\* a memory as one that applies to every project
detectGlobalPattern(content, category, tags) ==
    \/ category \in {"pattern", "preference", "learning"}
    \/ TokensOf(content.text) \cap {"always", "never", "universal"} # {}
    \/ TagSet(tags) \cap {"universal", "global", "general", "cross-project"} # {}

----------------------------------------------------------------------------
(* The REST surface (visualization-server.ts).                              *)

\* POST /api/memories: 400 without title or content, else addMemory with defaults
postApiMemories(body) ==
    /\ nextId <= MaxId
    /\ IF ~Has(body, "title") \/ ~Has(body, "content")
          \/ body.title = "" \/ body.content.length = 0
       THEN /\ UNCHANGED <<memories, memories_fts, nextId>>
            /\ events' = <<>>
            /\ response' = Reply("postApiMemories", 0, FALSE, "validation")
       ELSE InsertMemory("postApiMemories",
               [f \in (DOMAIN body \cup {"type", "category", "tags"}) |->
                   IF f = "type" THEN (IF Has(body, "type") THEN body.type ELSE "short_term")
                   ELSE IF f = "category"
                        THEN (IF Has(body, "category") THEN body.category ELSE "note")
                   ELSE IF f = "tags" THEN (IF Has(body, "tags") THEN body.tags ELSE <<>>)
                   ELSE body[f]])
    /\ UNCHANGED <<memory_links, now, control, graph, inflight, embedding, websocket, stopHook>>

----------------------------------------------------------------------------
(* Control state (pause / resume), the clock, the database file.            *)

pause ==
    /\ paused' = TRUE
    /\ events' = <<>>
    /\ UNCHANGED <<store, now, dbSize, graph, response, inflight, embedding, websocket, stopHook>>

resume ==
    /\ paused' = FALSE
    /\ events' = <<>>
    /\ UNCHANGED <<store, now, dbSize, graph, response, inflight, embedding, websocket, stopHook>>

Tick ==
    /\ now < MaxTime
    /\ now' = now + 1
    /\ events' = <<>>
    /\ UNCHANGED <<store, control, graph, response, inflight, embedding, websocket, stopHook>>

\* the file as statSync sees it: at the hard limit, or one byte over it
FileSizes == {4096, MAX_DB_SIZE, MAX_DB_SIZE + 1}

FileGrows ==
    /\ \E size \in FileSizes : size > dbSize /\ dbSize' = size
    /\ events' = <<>>
    /\ UNCHANGED <<store, now, paused, graph, response, inflight, embedding, websocket, stopHook>>

\* a link row inserted by link discovery or by a client
createMemoryLink(l) ==
    /\ LinkInsertOk(memory_links, memories, l)
    /\ memory_links' = memory_links \cup {l}
    /\ events' = <<>>
    /\ UNCHANGED <<memories, memories_fts, nextId, now, control, graph, response, inflight, embedding, websocket, stopHook>>

----------------------------------------------------------------------------
(* The knowledge graph resolver (graph/resolve.ts). A name is a sequence of *)
(* one-character strings.                                                   *)

UpperToLower == [c \in {"R", "J", "S", "X"} |->
                    CASE c = "R" -> "r" [] c = "J" -> "j" [] c = "S" -> "s" [] c = "X" -> "x"]

toLowerCase(s) ==
    [i \in 1..Len(s) |-> IF s[i] \in DOMAIN UpperToLower THEN UpperToLower[s[i]] ELSE s[i]]

\* one row of the distance table: cur holds curr[0..j-1], prev the row above
RECURSIVE LevRow(_, _, _, _, _)
LevRow(a, b, i, prev, cur) ==
    LET j == Len(cur) IN
    IF j > Len(b) THEN cur
    ELSE LET cost == IF a[i] = b[j] THEN 0 ELSE 1
         IN  LevRow(a, b, i, prev,
                    Append(cur, Min(Min(prev[j + 1] + 1, cur[j] + 1), prev[j] + cost)))

RECURSIVE LevRows(_, _, _, _)
LevRows(a, b, i, prev) ==
    IF i > Len(a) THEN prev
    ELSE LevRows(a, b, i + 1, LevRow(a, b, i, prev, <<i>>))

levenshtein(a, b) ==
    IF Len(a) = 0 THEN Len(b)
    ELSE IF Len(b) = 0 THEN Len(a)
    ELSE LevRows(a, b, 1, [k \in 1..(Len(b) + 1) |-> k - 1])[Len(b) + 1]

\* the first row a SELECT returns: the lowest rowid
FirstId(S) == CHOOSE i \in S : \A j \in S : i <= j

includes(seq, x) == \E k \in 1..Len(seq) : seq[k] = x

\* if (name.length > 5): only longer names are matched by distance
FuzzyEligible_always(name) == TRUE
FuzzyEligible(name) == Len(name) > 5

\* resolveEntity(name, type) on the entities table ents with next rowid nid:
\* the id it returns and the table it leaves
resolveEntity(ents, nid, name, type) ==
    LET nameLower == toLowerCase(name)
        ofType == {i \in DOMAIN ents : ents[i].type = type}
        exact == {i \in ofType : ents[i].name = name}
        ciMatch == {i \in ofType : toLowerCase(ents[i].name) = nameLower}
        aliasRows == {i \in ofType : \E k \in 1..Len(ents[i].aliases) :
                                        toLowerCase(ents[i].aliases[k]) = nameLower}
        candidates == {i \in ofType :
                          /\ Len(ents[i].name) >= Len(name) - 2
                          /\ Len(ents[i].name) <= Len(name) + 2
                          /\ levenshtein(nameLower, toLowerCase(ents[i].name)) <= 2}
        pushAlias(i) == IF includes(ents[i].aliases, name) THEN ents
                        ELSE [ents EXCEPT ![i].aliases = Append(@, name)]
        found(i, table) == [id |-> i, entities |-> table, nextEntityId |-> nid]
    IN  IF exact # {} THEN found(FirstId(exact), ents)
        ELSE IF ciMatch # {} THEN found(FirstId(ciMatch), ents)
        ELSE IF aliasRows # {} THEN found(FirstId(aliasRows), pushAlias(FirstId(aliasRows)))
        ELSE IF FuzzyEligible(name) /\ candidates # {}
             THEN found(FirstId(candidates), pushAlias(FirstId(candidates)))
        ELSE [id |-> nid,
              entities |-> ents @@ (nid :> [id |-> nid, name |-> name, type |-> type,
                                            aliases |-> <<>>, memory_count |-> 0]),
              nextEntityId |-> nid + 1]

\* step 1 of processExtractionResult: resolve result.entities[k..] in order,
\* filling nameToId (a later entity of the same name replaces the earlier id)
RECURSIVE ResolveAll(_, _, _)
ResolveAll(list, k, acc) ==
    IF k > Len(list) THEN acc
    ELSE LET r == resolveEntity(acc.entities, acc.nextEntityId, list[k].name, list[k].type)
             map == acc.nameToId
         IN  ResolveAll(list, k + 1,
                [entities |-> r.entities, nextEntityId |-> r.nextEntityId,
                 nameToId |-> [n \in DOMAIN map \cup {list[k].name} |->
                                  IF n = list[k].name THEN r.id ELSE map[n]]])

processExtractionResult(result, memoryId) ==
    LET resolved == ResolveAll(result.entities, 1,
                       [entities |-> entities, nextEntityId |-> nextEntityId,
                        nameToId |-> [n \in {} |-> 0]])
        nameToId == resolved.nameToId
        uniqueIds == {nameToId[n] : n \in DOMAIN nameToId}
        mentions == {[memory_id |-> memoryId, entity_id |-> nameToId[result.entities[k].name],
                      role |-> "mention"] : k \in 1..Len(result.entities)}
        newTriples == {[subject_id |-> nameToId[result.triples[k].subject],
                        predicate |-> result.triples[k].predicate,
                        object_id |-> nameToId[result.triples[k].object],
                        source_memory_id |-> memoryId] :
                          k \in {j \in 1..Len(result.triples) :
                                    /\ result.triples[j].subject \in DOMAIN nameToId
                                    /\ result.triples[j].object \in DOMAIN nameToId}}
    IN  /\ \A i \in DOMAIN entities : entities[i].memory_count < MaxMentions
        /\ nextEntityId' = resolved.nextEntityId
        /\ IF Len(result.entities) > 0 /\ memoryId \notin DOMAIN memories
           THEN \* the first INSERT INTO memory_entities fails its foreign key;
                \* the entities step 1 wrote stay
                /\ entities' = resolved.entities
                /\ UNCHANGED <<memory_entities, triples>>
                /\ events' = <<>>
                /\ response' = Reply("processExtractionResult", memoryId, FALSE, "constraint")
           ELSE /\ memory_entities' = memory_entities \cup mentions
                /\ triples' = triples \cup newTriples
                /\ entities' = [i \in DOMAIN resolved.entities |->
                                   IF i \in uniqueIds
                                   THEN [resolved.entities[i] EXCEPT !.memory_count = @ + 1]
                                   ELSE resolved.entities[i]]
                /\ events' = <<>>
                /\ response' = Reply("processExtractionResult", memoryId, TRUE, "none")
        /\ UNCHANGED <<store, now, control, inflight, embedding, websocket, stopHook>>

\* resolveEntity(name, type) called on the database
resolveEntity_call(name, type) ==
    LET r == resolveEntity(entities, nextEntityId, name, type) IN
    /\ entities' = r.entities
    /\ nextEntityId' = r.nextEntityId
    /\ events' = <<>>
    /\ response' = Reply("resolveEntity", r.id, TRUE, "none") @@ [name |-> name, type |-> type]
    /\ UNCHANGED <<store, now, control, triples, memory_entities, inflight, embedding, websocket, stopHook>>

\* UPDATE OR IGNORE ... SET col = new WHERE col = old on a table whose rows
\* are unique: a row whose new value is already another row is left as it is
UpdateOrIgnore_ignores_all(rows, col, old, new) == rows
UpdateOrIgnore(rows, col, old, new) ==
    LET hit == {r \in rows : r[col] = old}
        moved(r) == [r EXCEPT ![col] = new]
        ignored == {r \in hit : moved(r) \in rows \ {r}}
    IN  (rows \ hit) \cup ignored \cup {moved(r) : r \in hit \ ignored}

\* DELETE FROM entities WHERE id = ?
DeleteEntity_noop(ents, id) == ents
DeleteEntity(ents, id) == [i \in DOMAIN ents \ {id} |-> ents[i]]

\* [...new Set(seq)]: the first occurrence of each element, in order
RECURSIVE Unique(_, _)
Unique(seq, acc) ==
    IF seq = <<>> THEN acc
    ELSE Unique(Tail(seq), IF includes(acc, Head(seq)) THEN acc ELSE Append(acc, Head(seq)))

\* the merged alias list: both lists and the removed name, without the kept name
mergedAliases(keepRow, removeRow) ==
    LET allAliases == Unique(keepRow.aliases \o removeRow.aliases \o <<removeRow.name>>, <<>>)
    IN  SelectSeq(allAliases, LAMBDA a : a # keepRow.name)

\* mergeEntities(keepId, removeId): one transaction.  It throws, and the
\* transaction rolls back, when a statement fails (fault) or when one of the
\* two rows does not exist (keepRow / removeRow is undefined).
mergeEntities(keepId, removeId, fault) ==
    LET failed == fault \/ keepId \notin DOMAIN entities \/ removeId \notin DOMAIN entities
        t1 == UpdateOrIgnore(triples, "subject_id", removeId, keepId)
        t2 == UpdateOrIgnore(t1, "object_id", removeId, keepId)
        me1 == UpdateOrIgnore(memory_entities, "entity_id", removeId, keepId)
        t3 == {t \in t2 : t.subject_id # removeId /\ t.object_id # removeId}
        me2 == {e \in me1 : e.entity_id # removeId}
        keepRow == entities[keepId]
        removeRow == entities[removeId]
        updated == [entities EXCEPT
                       ![keepId].aliases = mergedAliases(keepRow, removeRow),
                       ![keepId].memory_count = keepRow.memory_count + removeRow.memory_count]
    IN  /\ IF failed
           THEN /\ UNCHANGED <<entities, triples, memory_entities>>
                /\ response' = Reply("mergeEntities", keepId, FALSE, "thrown")
                                  @@ [removeId |-> removeId]
           ELSE /\ triples' = t3
                /\ memory_entities' = me2
                /\ entities' = DeleteEntity(updated, removeId)
                /\ response' = Reply("mergeEntities", keepId, TRUE, "none")
                                  @@ [removeId |-> removeId]
        /\ events' = <<>>
        /\ UNCHANGED <<store, now, control, nextEntityId, inflight, embedding, websocket, stopHook>>

----------------------------------------------------------------------------
(* The knowledge graph query tools (tools/graph.ts).  The triples table has *)
(* no rowid in the model, so the rows of a SELECT come in a fixed order     *)
(* that the model chooses.                                                  *)

RECURSIVE RowSeq(_)
RowSeq(S) ==
    IF S = {} THEN <<>>
    ELSE LET r == CHOOSE x \in S : TRUE IN <<r>> \o RowSeq(S \ {r})

\* SELECT * FROM entities WHERE LOWER(name) = LOWER(?): the first row, or 0
entityByName(name) ==
    LET rows == {i \in DOMAIN entities : toLowerCase(entities[i].name) = toLowerCase(name)}
    IN  IF rows = {} THEN 0 ELSE FirstId(rows)

\* triples out of / into nodeId, joined with the entity at the other end
outgoing(nodeId) ==
    RowSeq({t \in triples : t.subject_id = nodeId /\ t.object_id \in DOMAIN entities})

incoming(nodeId) ==
    RowSeq({t \in triples : t.object_id = nodeId /\ t.subject_id \in DOMAIN entities})

\* if (!visited.has(id))
Unvisited(id, visited) == id \notin visited

\* handleGraphQuery: the loop over the rows of one SELECT
RECURSIVE QueryRows(_, _, _, _, _, _, _)
QueryRows(rows, k, field, direction, d, args, st) ==
    IF k > Len(rows) THEN st
    ELSE LET row == rows[k]
             id == row[field]
         IN  IF Has(args, "predicates") /\ row.predicate \notin args.predicates
             THEN QueryRows(rows, k + 1, field, direction, d, args, st)
             ELSE QueryRows(rows, k + 1, field, direction, d, args,
                     [st EXCEPT
                        !.connections = @ \cup {[predicate |-> row.predicate,
                                                 direction |-> direction,
                                                 entity |-> id, depth |-> d]},
                        !.visited = @ \cup {id},
                        !.nextFrontier = IF Unvisited(id, st.visited)
                                         THEN Append(@, id) ELSE @])

\* handleGraphQuery: the loop over the frontier
RECURSIVE QueryFrontier(_, _, _, _, _)
QueryFrontier(frontier, k, d, args, st) ==
    IF k > Len(frontier) THEN st
    ELSE LET nodeId == frontier[k]
             out == QueryRows(outgoing(nodeId), 1, "object_id", "outgoing", d, args,
                              [st EXCEPT !.expanded = Append(@, nodeId)])
         IN  QueryFrontier(frontier, k + 1, d, args,
                QueryRows(incoming(nodeId), 1, "subject_id", "incoming", d, args, out))

\* the condition of the loop over depths in handleGraphQuery: d <= maxDepth
WithinDepth_always(d, maxDepth) == TRUE
WithinDepth(d, maxDepth) == d <= maxDepth

\* handleGraphQuery: for (let d = 1; d <= maxDepth; d++)
RECURSIVE QueryDepths(_, _, _, _, _)
QueryDepths(d, maxDepth, frontier, args, st) ==
    IF ~WithinDepth(d, maxDepth) THEN st
    ELSE LET round == QueryFrontier(frontier, 1, d, args, [st EXCEPT !.nextFrontier = <<>>])
         IN  IF round.nextFrontier = <<>> THEN round
             ELSE QueryDepths(d + 1, maxDepth, round.nextFrontier, args, round)

QueryDefaultDepth == 2

\* what handleGraphQuery computes: the connections, and the nodes it expanded
GraphQuery(args) ==
    LET maxDepth == IF Has(args, "depth") THEN args.depth ELSE QueryDefaultDepth
        root == entityByName(args.entity)
    IN  IF root = 0
        THEN [found |-> FALSE, root |-> 0, connections |-> {}, expanded |-> <<>>]
        ELSE LET st == QueryDepths(1, maxDepth, <<root>>, args,
                          [visited |-> {root}, nextFrontier |-> <<>>,
                           connections |-> {}, expanded |-> <<>>])
             IN  [found |-> TRUE, root |-> root, connections |-> st.connections,
                  expanded |-> st.expanded]

handleGraphQuery(args) ==
    LET r == GraphQuery(args) IN
    /\ response' = Reply("handleGraphQuery", r.root, r.found,
                         IF r.found THEN "none" ELSE "not_found")
                      @@ [expanded |-> r.expanded, connections |-> r.connections]
    /\ events' = <<>>
    /\ UNCHANGED <<store, now, control, graph, inflight, embedding, websocket, stopHook>>

\* handleGraphExplain: the loop over the rows of one SELECT, until the target
RECURSIVE ExplainRows(_, _, _, _, _, _)
ExplainRows(rows, k, field, nodeId, toId, st) ==
    IF k > Len(rows) \/ st.found THEN st
    ELSE LET row == rows[k]
             id == row[field]
         IN  IF Unvisited(id, DOMAIN st.visited)
             THEN ExplainRows(rows, k + 1, field, nodeId, toId,
                     [st EXCEPT !.visited = (id :> [parentId |-> nodeId]) @@ @,
                                !.nextFrontier = Append(@, id),
                                !.found = (id = toId)])
             ELSE ExplainRows(rows, k + 1, field, nodeId, toId, st)

RECURSIVE ExplainFrontier(_, _, _, _)
ExplainFrontier(frontier, k, toId, st) ==
    IF k > Len(frontier) \/ st.found THEN st
    ELSE LET nodeId == frontier[k]
             out == ExplainRows(outgoing(nodeId), 1, "object_id", nodeId, toId,
                                [st EXCEPT !.expanded = Append(@, nodeId)])
         IN  ExplainFrontier(frontier, k + 1, toId,
                ExplainRows(incoming(nodeId), 1, "subject_id", nodeId, toId, out))

\* handleGraphExplain: for (let d = 0; d < maxDepth && !found; d++)
RECURSIVE ExplainDepths(_, _, _, _, _)
ExplainDepths(d, maxDepth, frontier, toId, st) ==
    IF d >= maxDepth \/ st.found THEN st
    ELSE LET round == ExplainFrontier(frontier, 1, toId, [st EXCEPT !.nextFrontier = <<>>])
         IN  IF round.nextFrontier = <<>> THEN round
             ELSE ExplainDepths(d + 1, maxDepth, round.nextFrontier, toId, round)

\* the path rebuilt from the parent of each visited node, target first
RECURSIVE PathTo(_, _)
PathTo(visited, current) ==
    IF visited[current].parentId = 0 THEN <<current>>
    ELSE Append(PathTo(visited, visited[current].parentId), current)

ExplainDefaultDepth == 4

\* what handleGraphExplain computes: the path, and the nodes it expanded
GraphExplain(args) ==
    LET maxDepth == IF Has(args, "maxDepth") THEN args.maxDepth ELSE ExplainDefaultDepth
        fromId == entityByName(args.from)
        toId == entityByName(args.to)
    IN  IF fromId = 0 \/ toId = 0
        THEN [found |-> FALSE, error |-> "not_found", path |-> <<>>, expanded |-> <<>>]
        ELSE IF fromId = toId
        THEN [found |-> TRUE, error |-> "none", path |-> <<fromId>>, expanded |-> <<>>]
        ELSE LET st == ExplainDepths(0, maxDepth, <<fromId>>, toId,
                          [visited |-> (fromId :> [parentId |-> 0]),
                           nextFrontier |-> <<>>, found |-> FALSE, expanded |-> <<>>])
             IN  [found |-> st.found, error |-> "none",
                  path |-> IF st.found THEN PathTo(st.visited, toId) ELSE <<>>,
                  expanded |-> st.expanded]

handleGraphExplain(args) ==
    LET r == GraphExplain(args) IN
    /\ response' = Reply("handleGraphExplain", 0, r.error = "none", r.error)
                      @@ [expanded |-> r.expanded, path |-> r.path]
    /\ events' = <<>>
    /\ UNCHANGED <<store, now, control, graph, inflight, embedding, websocket, stopHook>>

----------------------------------------------------------------------------
(* The stop hook (scripts/stop-hook.js): one process for each stop.  A text *)
(* is its length and the keyword groups it has a keyword of; a JSON value   *)
(* is a record tagged with its type.                                        *)

Text(length, has) == [length |-> length, has |-> has]

String(text) == [t |-> "string", text |-> text]

True == [t |-> "boolean", v |-> TRUE]

\* the keyword lists, in the order detectNotableContent tries them
KeywordGroups ==
    <<"decision", "error", "learning", "architecture", "preference", "important">>

\* the description of the first keyword list with a keyword in the text
detectNotableContent(text) ==
    LET hits == {k \in 1..Len(KeywordGroups) : KeywordGroups[k] \in text.has}
    IN  IF hits = {} THEN NULL ELSE KeywordGroups[FirstId(hits)]

\* msgContent.filter(c => c.type === 'text').map(c => c.text).join('\n')
RECURSIVE joinTexts(_, _)
joinTexts(parts, k) ==
    IF k > Len(parts) THEN Text(0, {})
    ELSE LET rest == joinTexts(parts, k + 1)
         IN  IF k = Len(parts) THEN parts[k]
             ELSE Text(parts[k].length + 1 + rest.length, parts[k].has \cup rest.has)

textParts(content) ==
    LET texts == SelectSeq(content, LAMBDA c : c.type = "text")
    IN  [k \in 1..Len(texts) |-> texts[k].text]

TranscriptWindow == 20

\* the content of a transcript line is there and truthy
Truthy(entry) ==
    /\ Has(entry, "content")
    /\ entry.content.t = "string" => entry.content.text.length > 0

\* the loop from the last line back over at most TranscriptWindow lines
RECURSIVE lastAssistant(_, _)
lastAssistant(lines, i) ==
    IF i < 1 \/ i <= Len(lines) - TranscriptWindow THEN String(Text(0, {}))
    ELSE LET entry == lines[i] IN
         IF entry.type = "assistant" /\ Truthy(entry)
         THEN IF entry.content.t = "array"
              THEN String(joinTexts(textParts(entry.content.parts), 1))
              ELSE entry.content
         ELSE lastAssistant(lines, i - 1)

getLastAssistantMessage(hookData) ==
    IF ~Has(hookData, "transcript_path") \/ ~hookData.transcript_path.exists
    THEN String(Text(0, {}))
    ELSE lastAssistant(hookData.transcript_path.lines, Len(hookData.transcript_path.lines))

\* if (hookData.stop_hook_active === true)
LoopPrevention_off(hookData) == FALSE
LoopPrevention(hookData) ==
    Has(hookData, "stop_hook_active") /\ hookData.stop_hook_active = True

\* what main() decides before it writes or exits: the exit code, and the
\* description it is about to write when the code is 2
Decision(stdin) ==
    IF stdin.kind # "json" THEN [exit |-> 0, description |-> NULL]
    ELSE IF stdin.data.t = "null" THEN [exit |-> 0, description |-> NULL]
    ELSE IF LoopPrevention(stdin.data) THEN [exit |-> 0, description |-> NULL]
    ELSE LET lastMessage == getLastAssistantMessage(stdin.data) IN
         IF lastMessage.t # "string" THEN [exit |-> 0, description |-> NULL]
         ELSE IF lastMessage.text.length < 50 THEN [exit |-> 0, description |-> NULL]
         ELSE LET description == detectNotableContent(lastMessage.text) IN
              [exit |-> IF description = NULL THEN 0 ELSE 2, description |-> description]

NotStarted ==
    [pc |-> "none", stdin |-> [kind |-> "none"], stderr |-> <<>>, exit |-> 0,
     previous |-> 0]

\* the input of a stop that continues from a stop hook: the caller of the
\* hook sets stop_hook_active to true
Continuing(stdin) ==
    /\ stdin.kind = "json" /\ stdin.data.t = "object"
    /\ Has(stdin.data, "stop_hook_active") /\ stdin.data.stop_hook_active = True

\* a stop starts the hook with stdin; the stop after a blocked one continues
\* from the stop hook
main(stdin) ==
    /\ stopHook.pc \in {"none", "exited"}
    /\ stopHook.pc = "exited" /\ stopHook.exit = 2 => Continuing(stdin)
    /\ stopHook' = [pc |-> IF Decision(stdin).exit = 0 THEN "exited" ELSE "notable",
                    stdin |-> stdin, stderr |-> <<>>, exit |-> 0,
                    previous |-> IF stopHook.pc = "exited" THEN stopHook.exit ELSE 0]
    /\ events' = <<>>
    /\ UNCHANGED <<store, now, control, graph, response, inflight, embedding, websocket>>

\* process.stderr.write(...)
stderr_write ==
    /\ stopHook.pc = "notable"
    /\ stopHook' = [stopHook EXCEPT !.pc = "written",
                       !.stderr = <<Decision(stopHook.stdin).description>>]
    /\ events' = <<>>
    /\ UNCHANGED <<store, now, control, graph, response, inflight, embedding, websocket>>

\* process.exit(2)
exit_2 ==
    /\ stopHook.pc = "written"
    /\ stopHook' = [stopHook EXCEPT !.pc = "exited", !.exit = 2]
    /\ events' = <<>>
    /\ UNCHANGED <<store, now, control, graph, response, inflight, embedding, websocket>>

----------------------------------------------------------------------------
(* GET /api/memories of the dashboard server (api/visualization-server.ts). *)

\* ORDER BY last_accessed DESC (rows that tie come in rowid order)
RECURSIVE OrderByRecent(_)
OrderByRecent(rows) ==
    IF rows = {} THEN <<>>
    ELSE LET first == CHOOSE r \in rows : \A o \in rows \ {r} :
                         \/ r.last_accessed > o.last_accessed
                         \/ r.last_accessed = o.last_accessed /\ r.id < o.id
         IN  <<first>> \o OrderByRecent(rows \ {first})

\* if (project) sql += ' WHERE project = ?'
InProject(row, req) == (Has(req, "project") /\ req.project # "") => row.project = req.project

getRecentMemories(limit, req) ==
    Limit(OrderByRecent({r \in Rows : InProject(r, req)}), limit)

getHighPriorityMemories(limit, req) ==
    Limit(OrderBySalience({r \in Rows : r.salience >= 600 /\ InProject(r, req)}), limit)

\* the options the handler hands to searchMemories
SearchOptions(req, limit) ==
    [f \in DOMAIN req \cap {"query", "project", "type", "category"} |-> req[f]]
       @@ [limit |-> limit]

DefaultPageLimit == 50
MaxPageLimit == 200

PageLimit(req) == Min(IF Has(req, "limit") THEN req.limit ELSE DefaultPageLimit, MaxPageLimit)

PageOffset(req) == IF Has(req, "offset") THEN req.offset ELSE 0

\* the list the handler fetches, as ids: limit + offset + 1 rows of the mode
Fetched(req, n) ==
    LET list == IF Has(req, "mode") /\ req.mode = "search" /\ Has(req, "query") /\ req.query # ""
                THEN Search(SearchOptions(req, n))
                ELSE IF Has(req, "mode") /\ req.mode = "important"
                THEN getHighPriorityMemories(n, req)
                ELSE getRecentMemories(n, req)
    IN  [k \in 1..Len(list) |-> list[k].id]

\* memories.filter(m => m.type === type), memories.filter(m => m.category === category)
Filtered(ids, req) ==
    SelectSeq(ids, LAMBDA id :
        /\ (Has(req, "type") /\ req.type # "") => memories[id].type = req.type
        /\ (Has(req, "category") /\ req.category # "") => memories[id].category = req.category)

\* memories.slice(offset, offset + limit)
Slice(seq, offset, limit) == SubSeq(seq, offset + 1, Min(offset + limit, Len(seq)))

\* app.get('/api/memories')
get_api_memories(req) ==
    LET limit == PageLimit(req)
        offset == PageOffset(req)
        list == Filtered(Fetched(req, limit + offset + 1), req)
    IN  /\ response' = Reply("get_api_memories", 0, TRUE, "none")
                          @@ [memories |-> Slice(list, offset, limit),
                              pagination |-> [offset |-> offset, limit |-> limit,
                                              total |-> Cardinality({r \in Rows : InProject(r, req)}),
                                              hasMore |-> Len(list) > offset + limit]]
        /\ events' = <<>>
        /\ UNCHANGED <<store, now, control, graph, inflight, embedding, websocket, stopHook>>

----------------------------------------------------------------------------
(* Several processes on one database file (the MCP server, the dashboard    *)
(* API, hooks). A statement is atomic; a handler that runs a SELECT and     *)
(* then an UPDATE outside a transaction is two steps.                       *)

Procs == 1..NumProcs

Idle == [pc |-> "idle", op |-> "none", id |-> 0]

\* the row of memory id before the first of the calls in flight on it began
BaseRow(id) ==
    LET earlier == {q \in Procs : inflight[q].pc # "idle" /\ inflight[q].id = id}
    IN  IF earlier = {} THEN memories[id]
        ELSE inflight[CHOOSE q \in earlier : TRUE].base

\* accessMemory, first half: getMemoryById and calculateReinforcementBoost
accessMemory_read(p, id) ==
    LET memory == getMemoryById(id) IN
    /\ inflight[p].pc = "idle"
    /\ inflight' = [inflight EXCEPT ![p] =
          IF memory = NoRow
          THEN [pc |-> "done", op |-> "accessMemory", id |-> 0]
          ELSE [pc |-> "read", op |-> "accessMemory", id |-> id,
                newSalience |-> calculateReinforcementBoost(memory),
                base |-> BaseRow(id)]]
    /\ events' = <<>>
    /\ UNCHANGED <<store, now, control, graph, response, embedding, websocket, stopHook>>

\* accessMemory, second half: the UPDATE with the salience computed from the
\* row as it was read, then getMemoryById
accessMemory_write(p) ==
    LET call == inflight[p]
        memory == getMemoryById(call.id)
        updated == AccessUpdate(memory, call.newSalience, now)
    IN  /\ call.pc = "read"
        /\ IF memory = NoRow
           THEN /\ UNCHANGED <<memories, memories_fts>>
                /\ events' = <<>>
                /\ response' = Reply("accessMemory", call.id, FALSE, "not_found")
           ELSE /\ memories' = [memories EXCEPT ![call.id] = updated]
                /\ memories_fts' = memories_au(memories_fts, memory, updated)
                /\ events' = <<Event("memory_accessed", call.id)>>
                /\ response' = Reply("accessMemory", call.id, TRUE, "none")
        /\ inflight' = [inflight EXCEPT ![p].pc = "done"]
        /\ UNCHANGED <<memory_links, nextId, now, control, graph, embedding, websocket, stopHook>>

\* updateMemory called by process p: one UPDATE of the patched columns
updateMemory_by(p, id, updates) ==
    /\ inflight[p].pc = "idle"
    /\ id \in DOMAIN memories
    /\ UpdateStatement(id, updates)
    /\ inflight' = [inflight EXCEPT ![p] =
          [pc |-> "done", op |-> "updateMemory", id |-> id,
           updates |-> updates, base |-> BaseRow(id)]]
    /\ UNCHANGED <<memory_links, nextId, now, control, graph, embedding, websocket, stopHook>>

----------------------------------------------------------------------------
(* The embedding model loader (embeddings/generator.ts).  Node runs one     *)
(* piece of JavaScript at a time, so a step is the code between two awaits. *)
(* A promise is its number in loads; 0 stands for null.  The reactions of a *)
(* promise run in the order they were registered: the call that started the *)
(* load awaits loadPromise inside its own synchronous part, a call that     *)
(* joined it registers later, so the starter's continuation runs first.     *)

Callers == 1..NumCallers

NoCall == [pc |-> "idle", via |-> "none", promise |-> 0]

Settled(k) == loads[k] # "pending"

\* if (isLoading && loadPromise)
Coalesces_never == FALSE
Coalesces == isLoading /\ loadPromise # 0

\* finally { isLoading = false; loadPromise = null; }
finally_skipped == UNCHANGED <<isLoading, loadPromise>>
finally == isLoading' = FALSE /\ loadPromise' = 0

\* generateEmbedding(text) up to its first suspension: the synchronous part
\* of getEmbeddingPipeline()
generateEmbedding_call(c) ==
    /\ callers[c].pc = "idle"
    /\ IF embeddingPipeline # NULL
       THEN /\ callers' = [callers EXCEPT ![c] =
                   [pc |-> "resolved", via |-> "cached", promise |-> 0]]
            /\ UNCHANGED <<embeddingPipeline, isLoading, loadPromise, loads>>
       ELSE IF Coalesces
       THEN /\ callers' = [callers EXCEPT ![c] =
                   [pc |-> "awaiting", via |-> "shared", promise |-> loadPromise]]
            /\ UNCHANGED <<embeddingPipeline, isLoading, loadPromise, loads>>
       ELSE /\ Len(loads) < MaxLoads
            /\ isLoading' = TRUE
            /\ loads' = Append(loads, "pending")
            /\ loadPromise' = Len(loads) + 1
            /\ callers' = [callers EXCEPT ![c] =
                   [pc |-> "awaiting", via |-> "load", promise |-> Len(loads) + 1]]
            /\ UNCHANGED embeddingPipeline
    /\ events' = <<>>
    /\ UNCHANGED <<store, now, control, graph, response, inflight, websocket, stopHook>>

\* the promise pipeline('feature-extraction', ...) returned settles
pipeline_settles(k, outcome) ==
    /\ k \in 1..Len(loads)
    /\ loads[k] = "pending"
    /\ loads' = [loads EXCEPT ![k] = outcome]
    /\ events' = <<>>
    /\ UNCHANGED <<store, now, control, graph, response, inflight, websocket, stopHook,
                   embeddingPipeline, isLoading, loadPromise, callers>>

\* getEmbeddingPipeline resumes after `await loadPromise` in the call that
\* started the load: the assignment on success, the finally block either way
getEmbeddingPipeline_resume(c) ==
    LET call == callers[c] IN
    /\ call.pc = "awaiting"
    /\ call.via = "load"
    /\ Settled(call.promise)
    /\ embeddingPipeline' =
          IF loads[call.promise] = "fulfilled" THEN "model" ELSE embeddingPipeline
    /\ finally
    /\ callers' = [callers EXCEPT ![c].pc =
          IF loads[call.promise] = "fulfilled" THEN "resolved" ELSE "rejected"]
    /\ events' = <<>>
    /\ UNCHANGED <<store, now, control, graph, response, inflight, websocket, stopHook, loads>>

\* a call that returned loadPromise resumes with the outcome of that load
loadPromise_then(c) ==
    LET call == callers[c] IN
    /\ call.pc = "awaiting"
    /\ call.via = "shared"
    /\ Settled(call.promise)
    /\ \A d \in Callers :
          ~(callers[d].pc = "awaiting" /\ callers[d].via = "load"
            /\ callers[d].promise = call.promise)
    /\ callers' = [callers EXCEPT ![c].pc =
          IF loads[call.promise] = "fulfilled" THEN "resolved" ELSE "rejected"]
    /\ events' = <<>>
    /\ UNCHANGED <<store, now, control, graph, response, inflight, websocket, stopHook,
                   embeddingPipeline, isLoading, loadPromise, loads>>

\* generateEmbedding returns the vector or throws; the caller may call again
generateEmbedding_return(c) ==
    /\ callers[c].pc \in {"resolved", "rejected"}
    /\ callers' = [callers EXCEPT ![c] = NoCall]
    /\ events' = <<>>
    /\ UNCHANGED <<store, now, control, graph, response, inflight, websocket, stopHook,
                   embeddingPipeline, isLoading, loadPromise, loads>>

----------------------------------------------------------------------------
(* The dashboard's WebSocket endpoint (api/visualization-server.ts).  A     *)
(* handler runs to its end before the next one starts; the store calls it   *)
(* makes are synchronous.                                                   *)

Conns == 1..NumConns

\* a socket the server has not accepted yet
NoSocket == [readyState |-> "CONNECTING", frames |-> <<>>, since |-> 0]

\* the frame the connection handler sends
initial_state == [type |-> "initial_state", id |-> 0]

\* for (const client of clients) if (client.readyState === WebSocket.OPEN)
Receives_nobody(c) == FALSE
Receives(c) == c \in clients /\ sockets[c].readyState = "OPEN"

\* wss.on('connection'): track the socket, send the initial state
ws_connection(c) ==
    /\ sockets[c].readyState = "CONNECTING"
    /\ clients' = clients \cup {c}
    /\ sockets' = [sockets EXCEPT ![c] =
          [readyState |-> "OPEN", frames |-> <<initial_state>>, since |-> Len(bus)]]
    /\ events' = <<>>
    /\ UNCHANGED <<store, now, control, graph, response, inflight, embedding, stopHook, bus>>

\* an event is published: the subscriber broadcasts it to the open clients
broadcast(event) ==
    /\ Len(bus) < MaxEvents
    /\ bus' = Append(bus, event)
    /\ sockets' = [c \in Conns |->
          IF Receives(c) THEN [sockets[c] EXCEPT !.frames = Append(@, event)]
          ELSE sockets[c]]
    /\ events' = <<event>>
    /\ UNCHANGED <<store, now, control, graph, response, inflight, embedding, stopHook, clients>>

\* the peer starts the closing handshake: no handler runs yet
ws_closing(c) ==
    /\ sockets[c].readyState = "OPEN"
    /\ sockets' = [sockets EXCEPT ![c].readyState = "CLOSING"]
    /\ events' = <<>>
    /\ UNCHANGED <<store, now, control, graph, response, inflight, embedding, stopHook, clients, bus>>

\* ws.on('error'): the socket fails and is dropped from clients
ws_error(c) ==
    /\ sockets[c].readyState = "OPEN"
    /\ sockets' = [sockets EXCEPT ![c].readyState = "CLOSING"]
    /\ clients' = clients \ {c}
    /\ events' = <<>>
    /\ UNCHANGED <<store, now, control, graph, response, inflight, embedding, stopHook, bus>>

\* ws.on('close')
ws_close(c) ==
    /\ sockets[c].readyState = "CLOSING"
    /\ sockets' = [sockets EXCEPT ![c].readyState = "CLOSED"]
    /\ clients' = clients \ {c}
    /\ events' = <<>>
    /\ UNCHANGED <<store, now, control, graph, response, inflight, embedding, stopHook, bus>>

----------------------------------------------------------------------------
(* Inputs the operations are called with.                                   *)

Short == [text |-> "decided to use", length |-> 26, marker |-> FALSE]
Arch  == [text |-> "architecture decision", length |-> 40, marker |-> FALSE]

AddInputs ==
    << [title |-> "Use PostgreSQL", content |-> Short, project |-> "p"],
       [title |-> "Use SQLite", content |-> Arch, project |-> "p", tags |-> <<"db">>],
       [title |-> "Use SQLite", content |-> Short, type |-> "episodic",
        category |-> "pattern", salience |-> 200] >>

Patches ==
    << [title |-> "Use MySQL", content |-> Arch, tags |-> <<"db", "sql">>],
       [type |-> "short_term"],
       [unknown |-> 0] >>

Ids == 1..MaxId

LinkInputs ==
    {[source_id |-> s, target_id |-> t, relationship |-> "contradicts", strength |-> 800] :
        s \in Ids, t \in Ids}

EmptyTable == [i \in {} |-> NoRow]

Init ==
    /\ memories = EmptyTable
    /\ memories_fts = {}
    /\ memory_links = {}
    /\ nextId = 1
    /\ now = 0
    /\ paused = FALSE
    /\ dbSize = 4096
    /\ entities = EmptyTable
    /\ triples = {}
    /\ memory_entities = {}
    /\ nextEntityId = 1
    /\ response = Reply("none", 0, TRUE, "none")
    /\ inflight = [p \in Procs |-> Idle]
    /\ events = <<>>
    /\ embeddingPipeline = NULL
    /\ isLoading = FALSE
    /\ loadPromise = 0
    /\ loads = <<>>
    /\ callers = [c \in Callers |-> NoCall]
    /\ clients = {}
    /\ sockets = [c \in Conns |-> NoSocket]
    /\ bus = <<>>
    /\ stopHook = NotStarted

Next ==
    \/ \E k \in 1..Len(AddInputs) : addMemory(AddInputs[k])
    \/ \E id \in Ids, k \in 1..Len(Patches) : updateMemory(id, Patches[k])
    \/ \E id \in Ids : deleteMemory(id)
    \/ \E id \in Ids : accessMemory(id)
    \/ \E id \in Ids : promoteMemory(id)
    \/ cleanupDecayedMemories
    \/ Tick

Spec == Init /\ [][Next]_vars

----------------------------------------------------------------------------
(* The control specification: writes under pause / resume and a growing     *)
(* database file.                                                           *)

PostBodies ==
    << [title |-> "Use SQLite", content |-> Short, project |-> "p"],
       [content |-> Short] >>

NextControl ==
    \/ \E k \in 1..Len(AddInputs) : addMemory(AddInputs[k])
    \/ \E k \in 1..Len(PostBodies) : postApiMemories(PostBodies[k])
    \/ \E id \in Ids, k \in 1..Len(Patches) : updateMemory(id, Patches[k])
    \/ pause
    \/ resume
    \/ FileGrows

SpecControl == Init /\ [][NextControl]_vars

----------------------------------------------------------------------------
(* The graph specification: memories with links, mentions and triples that  *)
(* are deleted one by one or swept by the cleanup.                          *)

GraphAddInputs ==
    << [title |-> "Use PostgreSQL", content |-> Short, project |-> "p"],
       [title |-> "Try Redis", content |-> Short, type |-> "short_term", salience |-> 200] >>

ReactJS  == <<"R", "e", "a", "c", "t", "J", "S">>
ReactJSX == <<"R", "e", "a", "c", "t", "J", "S", "X">>
Redis    == <<"R", "e", "d", "i", "s">>

ExtractionResults ==
    << [entities |-> << [name |-> ReactJS, type |-> "library"],
                        [name |-> Redis, type |-> "service"] >>,
        triples |-> << [subject |-> ReactJS, predicate |-> "uses", object |-> Redis] >>],
       [entities |-> << [name |-> toLowerCase(ReactJS), type |-> "library"],
                        [name |-> ReactJSX, type |-> "library"] >>,
        triples |-> << [subject |-> ReactJSX, predicate |-> "extends",
                        object |-> toLowerCase(ReactJS)] >>] >>

NextGraph ==
    \/ \E k \in 1..Len(GraphAddInputs) : addMemory(GraphAddInputs[k])
    \/ \E id \in Ids : deleteMemory(id)
    \/ cleanupDecayedMemories
    \/ Tick
    \/ \E l \in LinkInputs : createMemoryLink(l)
    \/ \E id \in Ids, k \in 1..Len(ExtractionResults) :
          processExtractionResult(ExtractionResults[k], id)

SpecGraph == Init /\ [][NextGraph]_vars

----------------------------------------------------------------------------
(* The concurrent specification: processes reinforce and patch the same     *)
(* memories.                                                                *)

ConcPatches ==
    << [salience |-> 900], [title |-> "Use MySQL"] >>

NextConc ==
    \/ \E k \in 1..Len(AddInputs) : addMemory(AddInputs[k])
    \/ \E p \in Procs, id \in Ids : accessMemory_read(p, id)
    \/ \E p \in Procs : accessMemory_write(p)
    \/ \E p \in Procs, id \in Ids, k \in 1..Len(ConcPatches) :
          updateMemory_by(p, id, ConcPatches[k])

SpecConc == Init /\ [][NextConc]_vars

----------------------------------------------------------------------------
(* The search specification: memories are remembered through the remember   *)
(* tool, decay with the clock, and are searched.                            *)

RememberInputs ==
    << [title |-> "Use PostgreSQL", content |-> Short, project |-> "p"],
       [title |-> "Use better-sqlite3", content |-> Arch, project |-> "p",
        importance |-> "low"],
       [title |-> "Always lint", content |-> Short, category |-> "pattern",
        project |-> "q"] >>

\* the filter sets searches are run with
SearchFilters ==
    << [project |-> "p", includeGlobal |-> TRUE, includeDecayed |-> TRUE],
       [project |-> "q"],
       [query |-> "Use PostgreSQL", project |-> "p"],
       [query |-> "Use better-sqlite3"],
       [includeDecayed |-> FALSE],
       [category |-> "pattern", includeGlobal |-> TRUE] >>

WithLimit(options, limit) ==
    [f \in DOMAIN options \cup {"limit"} |-> IF f = "limit" THEN limit ELSE options[f]]

NextSearch ==
    \/ \E k \in 1..Len(RememberInputs) : executeRemember(RememberInputs[k])
    \/ \E k \in 1..Len(SearchFilters), L \in 1..MaxLimit :
          searchMemories(WithLimit(SearchFilters[k], L))
    \/ Tick

SpecSearch == Init /\ [][NextSearch]_vars

----------------------------------------------------------------------------
(* The write specification: memories are added, patched and accessed with   *)
(* salience at and beyond the ends of [0, 1] and content at and beyond      *)
(* 10 KiB.                                                                  *)

Exact == [text |-> "decided to use", length |-> MAX_CONTENT_SIZE, marker |-> FALSE]
Big   == [text |-> "decided to use", length |-> MAX_CONTENT_SIZE + 1, marker |-> FALSE]

WriteInputs ==
    << [title |-> "Use PostgreSQL", content |-> Short, project |-> "p"],
       [title |-> "Use SQLite", content |-> Big, type |-> "short_term", salience |-> SCALE],
       [title |-> "Use MySQL", content |-> Exact, salience |-> SCALE + 500],
       [title |-> "Use MySQL", content |-> Short, salience |-> 0 - 100] >>

WritePatches ==
    << [salience |-> SCALE + 500],
       [salience |-> 0 - 1],
       [salience |-> 950],
       [content |-> Big],
       [content |-> Exact, salience |-> 0],
       [unknown |-> 0] >>

NextWrites ==
    \/ \E k \in 1..Len(WriteInputs) : addMemory(WriteInputs[k])
    \/ \E id \in Ids, k \in 1..Len(WritePatches) : updateMemory(id, WritePatches[k])
    \/ \E id \in Ids : accessMemory(id)

SpecWrites == Init /\ [][NextWrites]_vars

----------------------------------------------------------------------------
(* The cleanup specification: a store that holds more short_term memories   *)
(* than one sweep reads.                                                    *)

CleanupInputs ==
    << [title |-> "Use PostgreSQL", content |-> Short, project |-> "p"],
       [title |-> "Try Redis", content |-> Short, type |-> "short_term", salience |-> 200],
       [title |-> "Use SQLite", content |-> Arch, project |-> "p"],
       [title |-> "Standup", content |-> Short, type |-> "episodic", salience |-> 100] >>

NextCleanup ==
    \/ \E k \in 1..Len(CleanupInputs) : addMemory(CleanupInputs[k])
    \/ cleanupDecayedMemories_scaled
    \/ Tick

SpecCleanup == Init /\ [][NextCleanup]_vars

\* the merge specification: extraction results of one memory build the graph,
\* names are resolved and entities are merged
Redux == <<"R", "e", "d", "u", "x">>

MergeResults ==
    << [entities |-> << [name |-> ReactJS, type |-> "library"],
                        [name |-> Redis, type |-> "service"] >>,
        triples |-> << [subject |-> ReactJS, predicate |-> "uses", object |-> Redis] >>],
       [entities |-> << [name |-> ReactJS, type |-> "framework"],
                        [name |-> Redis, type |-> "service"] >>,
        triples |-> << [subject |-> ReactJS, predicate |-> "uses", object |-> Redis] >>] >>

ResolveInputs ==
    << [name |-> ReactJS, type |-> "library"],
       [name |-> toLowerCase(ReactJS), type |-> "library"],
       [name |-> ReactJSX, type |-> "library"],
       [name |-> Redis, type |-> "service"],
       [name |-> Redux, type |-> "service"] >>

EntityIds == 1..MaxEntityId

NextMerge ==
    \/ addMemory(GraphAddInputs[1])
    \/ \E id \in Ids, k \in 1..Len(MergeResults) :
          nextEntityId <= MaxEntityId /\ processExtractionResult(MergeResults[k], id)
    \/ \E keepId \in EntityIds, removeId \in EntityIds, fault \in BOOLEAN :
          mergeEntities(keepId, removeId, fault)

SpecMerge == Init /\ [][NextMerge]_vars

\* the resolver specification: names are resolved one by one and by the
\* extraction results of memories
NextResolve ==
    \/ addMemory(GraphAddInputs[1])
    \/ \E id \in Ids, k \in 1..Len(ExtractionResults) :
          nextEntityId <= MaxEntityId /\ processExtractionResult(ExtractionResults[k], id)
    \/ \E k \in 1..Len(ResolveInputs) :
          /\ nextEntityId <= MaxEntityId
          /\ resolveEntity_call(ResolveInputs[k].name, ResolveInputs[k].type)

SpecResolve == Init /\ [][NextResolve]_vars

\* the patch specification: memories are added, patched, reinforced and
\* promoted while time passes
FramePatches ==
    << [title |-> "Use MySQL", tags |-> <<"db", "sql">>],
       [salience |-> 950, content |-> Arch],
       [type |-> "long_term"],
       [unknown |-> 0] >>

NextPatch ==
    \/ addMemory(GraphAddInputs[2])
    \/ \E id \in Ids, k \in 1..Len(FramePatches) : updateMemory(id, FramePatches[k])
    \/ \E id \in Ids : accessMemory(id)
    \/ \E id \in Ids : promoteMemory(id)
    \/ Tick

SpecPatch == Init /\ [][NextPatch]_vars

\* the events specification: dashboards connect and leave while events are
\* published
BusEvents ==
    {[type |-> "memory_created", id |-> 1], [type |-> "decay_tick", id |-> 0]}

NextEvents ==
    \/ \E c \in Conns : ws_connection(c)
    \/ \E event \in BusEvents : broadcast(event)
    \/ \E c \in Conns : ws_closing(c)
    \/ \E c \in Conns : ws_error(c)
    \/ \E c \in Conns : ws_close(c)

SpecEvents == Init /\ [][NextEvents]_vars

\* the contradiction specification: memories are added, linked as
\* contradicting each other, and searched
ContraSearches ==
    << [includeDecayed |-> TRUE],
       [query |-> "Use PostgreSQL", includeDecayed |-> TRUE],
       [project |-> "p"] >>

NextContra ==
    \/ \E k \in 1..Len(GraphAddInputs) : addMemory(GraphAddInputs[k])
    \/ \E l \in LinkInputs : createMemoryLink(l)
    \/ \E k \in 1..Len(ContraSearches) : searchMemories(ContraSearches[k])

SpecContra == Init /\ [][NextContra]_vars

\* the query specification: one extraction result builds a chain of six
\* entities with a cycle and a self-loop on it, another a single pair, and
\* the graph is queried
NameA == <<"a">>
NameB == <<"b">>
NameC == <<"c">>
NameD == <<"d">>
NameE == <<"e">>
NameF == <<"f">>

Concept(name) == [name |-> name, type |-> "concept"]

Edge(subject, predicate, object) ==
    [subject |-> subject, predicate |-> predicate, object |-> object]

ChainResults ==
    << [entities |-> << Concept(NameA), Concept(NameB), Concept(NameC),
                        Concept(NameD), Concept(NameE), Concept(NameF) >>,
        triples |-> << Edge(NameA, "uses", NameB), Edge(NameB, "uses", NameC),
                       Edge(NameC, "extends", NameD), Edge(NameD, "uses", NameE),
                       Edge(NameE, "uses", NameF), Edge(NameC, "uses", NameB),
                       Edge(NameA, "uses", NameA) >>],
       [entities |-> << Concept(NameF), Concept(NameA) >>,
        triples |-> << Edge(NameF, "extends", NameA) >>] >>

QueryArgs ==
    << [entity |-> NameA],
       [entity |-> NameA, depth |-> 4],
       [entity |-> NameC, depth |-> 1],
       [entity |-> NameA, depth |-> 5, predicates |-> {"uses"}],
       [entity |-> NameB, depth |-> 0] >>

ExplainArgs ==
    << [from |-> NameA, to |-> NameF],
       [from |-> NameA, to |-> NameE, maxDepth |-> 4],
       [from |-> NameA, to |-> NameD, maxDepth |-> 2],
       [from |-> NameF, to |-> NameF] >>

NextQuery ==
    \/ addMemory(GraphAddInputs[1])
    \/ \E id \in Ids, k \in 1..Len(ChainResults) :
          processExtractionResult(ChainResults[k], id)
    \/ \E k \in 1..Len(QueryArgs) : handleGraphQuery(QueryArgs[k])
    \/ \E k \in 1..Len(ExplainArgs) : handleGraphExplain(ExplainArgs[k])

SpecQuery == Init /\ [][NextQuery]_vars

\* the stop specification: the hook runs for one stop after another
Transcripts ==
    << [exists |-> FALSE, lines |-> <<>>],
       [exists |-> TRUE, lines |-> <<>>],
       [exists |-> TRUE, lines |->
          << [type |-> "assistant", content |-> String(Text(30, {"decision"}))] >>],
       [exists |-> TRUE, lines |->
          << [type |-> "assistant", content |-> String(Text(50, {"important"}))] >>],
       [exists |-> TRUE, lines |->
          << [type |-> "assistant", content |-> String(Text(80, {}))] >>],
       [exists |-> TRUE, lines |->
          << [type |-> "assistant", content |-> [t |-> "array", parts |->
                << [type |-> "text", text |-> Text(40, {"error"})],
                   [type |-> "tool_use"],
                   [type |-> "text", text |-> Text(20, {"important"})] >>]] >>],
       [exists |-> TRUE, lines |->
          << [type |-> "assistant", content |-> String(Text(80, {"learning"}))],
             [type |-> "user", content |-> String(Text(90, {"decision"}))],
             [type |-> "invalid"] >>],
       [exists |-> TRUE, lines |->
          << [type |-> "assistant", content |-> String(Text(70, {"preference", "architecture"}))],
             [type |-> "assistant", content |-> String(Text(0, {}))] >>],
       [exists |-> TRUE, lines |->
          << [type |-> "assistant", content |-> [t |-> "object"]] >>],
       [exists |-> TRUE, lines |->
          << [type |-> "assistant", content |-> String(Text(80, {"decision"}))] >>],
       [exists |-> TRUE, lines |->
          << [type |-> "assistant", content |-> String(Text(80, {"error", "learning"}))] >>],
       [exists |-> TRUE, lines |->
          << [type |-> "assistant", content |-> String(Text(80, {"architecture"}))] >>],
       [exists |-> TRUE, lines |->
          << [type |-> "assistant", content |-> String(Text(80, {"preference"}))] >>],
       [exists |-> TRUE, lines |->
          << [type |-> "assistant", content |-> String(Text(80, {"decision"}))] >>
          \o [k \in 1..TranscriptWindow |->
                [type |-> "user", content |-> String(Text(10, {}))]]] >>

HookObjects ==
    {[t |-> "object"]}
    \cup {[t |-> "object", transcript_path |-> Transcripts[k]] : k \in 1..Len(Transcripts)}
    \cup {[t |-> "object", stop_hook_active |-> a, transcript_path |-> Transcripts[k]] :
             a \in {True, [t |-> "boolean", v |-> FALSE], [t |-> "string", v |-> TRUE]},
             k \in 1..Len(Transcripts)}

Stdins ==
    {[kind |-> "unreadable"], [kind |-> "invalid"], [kind |-> "json", data |-> [t |-> "null"]]}
    \cup {[kind |-> "json", data |-> d] : d \in HookObjects}

NextStop ==
    \/ \E stdin \in Stdins : main(stdin)
    \/ stderr_write
    \/ exit_2

SpecStop == Init /\ [][NextStop]_vars

\* the page specification: up to MaxRows memories are added at two times and
\* pages of them are requested
MaxRows == 3

PageAddInputs ==
    << [title |-> "Use PostgreSQL", content |-> Short, project |-> "p",
        type |-> "long_term", category |-> "architecture", salience |-> 800],
       [title |-> "Try Redis", content |-> Short, project |-> "p",
        type |-> "short_term", category |-> "note", salience |-> 200] >>

PageRequests ==
    << [limit |-> 2],
       [type |-> "short_term", limit |-> 1],
       [type |-> "long_term", limit |-> 1, offset |-> 1],
       [project |-> "p", category |-> "architecture", limit |-> 1],
       [mode |-> "important", type |-> "long_term", limit |-> 1],
       [mode |-> "search", query |-> "Redis", type |-> "short_term", limit |-> 1] >>

NextPage ==
    \/ \E k \in 1..Len(PageAddInputs) :
          /\ nextId <= MaxRows
          /\ InsertMemory("addMemory", PageAddInputs[k])
          /\ UNCHANGED <<memory_links, now, control, graph, inflight, embedding,
                         websocket, stopHook>>
    \/ Tick
    \/ \E k \in 1..Len(PageRequests) : get_api_memories(PageRequests[k])

SpecPage == Init /\ [][NextPage]_vars

\* the loader specification: callers of generateEmbedding and the loads they start
NextLoader ==
    \/ \E c \in Callers : generateEmbedding_call(c)
    \/ \E k \in 1..MaxLoads, outcome \in {"fulfilled", "rejected"} :
          pipeline_settles(k, outcome)
    \/ \E c \in Callers : getEmbeddingPipeline_resume(c)
    \/ \E c \in Callers : loadPromise_then(c)
    \/ \E c \in Callers : generateEmbedding_return(c)

SpecLoader == Init /\ [][NextLoader]_vars

\* the same with the microtask queue running every reaction of a settled
\* promise; whether pipeline() ever settles is left open
SpecLoaderFair ==
    /\ Init /\ [][NextLoader]_vars
    /\ \A c \in Callers : WF_vars(getEmbeddingPipeline_resume(c))
    /\ \A c \in Callers : WF_vars(loadPromise_then(c))

----------------------------------------------------------------------------
(* Claims checked under Spec.                                               *)

\* C2: in every state the full-text index holds exactly one entry per row of
\* memories, carrying that row's current title, content and tags, and no entry
\* for a deleted row.
C2_FtsInSync ==
    /\ memories_fts = {FtsEntry(memories[i]) : i \in DOMAIN memories}
    /\ \A i \in DOMAIN memories :
          Cardinality({e \in memories_fts : e.rowid = i}) = 1

\* C2 witness: one row was updated (new title, content and tags) and is indexed
\* under its new text, the other row was deleted.
C2_Witness ==
    /\ nextId = 3
    /\ \E i \in DOMAIN memories :
          /\ DOMAIN memories = {i}
          /\ memories[i].title = "Use MySQL"
          /\ memories[i].access_count > 0
          /\ FtsEntry(memories[i]) \in memories_fts

\* C4: every accessMemory(id) on an existing memory raises access_count by
\* exactly 1 and leaves salience at or above its value before the call.
C4_AccessIncrements ==
    [][\A id \in Ids :
          (id \in DOMAIN memories /\ accessMemory(id)) =>
             /\ memories'[id].access_count = memories[id].access_count + 1
             /\ memories'[id].salience >= memories[id].salience]_vars

\* C4 witness: a memory accessed k = 2 times in succession has access_count 2
\* and a salience above the 0.40 it was stored with.
C4_Witness ==
    /\ response.op = "accessMemory"
    /\ response.ok
    /\ response.id \in DOMAIN memories
    /\ memories[response.id].access_count = 2
    /\ memories[response.id].title = "Use PostgreSQL"
    /\ memories[response.id].type = "short_term"
    /\ memories[response.id].salience > 400

\* C10: no operation changes a memory's type from long_term to short_term: a
\* memory that is long_term stays long_term for as long as it exists.
C10_NeverDemoted ==
    [][\A id \in DOMAIN memories \cap DOMAIN memories' :
          memories[id].type = "long_term" => memories'[id].type = "long_term"]_vars

----------------------------------------------------------------------------
(* Claims checked under SpecControl.                                        *)

\* C5: while the control state is paused, every request to add a memory
\* (addMemory, POST /api/memories) returns a paused error and leaves the
\* memories table unchanged.
C5_PausedRefusesAdd ==
    [][(isPaused /\ (\/ \E k \in 1..Len(AddInputs) : addMemory(AddInputs[k])
                     \/ \E k \in 1..Len(PostBodies) : postApiMemories(PostBodies[k])))
          => (response'.error = "paused" /\ memories' = memories)]_vars

\* C6: when the database file is larger than 100 MiB every write (addMemory,
\* updateMemory) is refused with an over-capacity error and changes no row; at
\* 100 MiB or less writes are accepted.
C6_BlockedRefusesWrites ==
    [][(\/ \E k \in 1..Len(AddInputs) : addMemory(AddInputs[k])
        \/ \E id \in DOMAIN memories, k \in 1..Len(Patches) : updateMemory(id, Patches[k]))
          => IF dbSize > MAX_DB_SIZE
             THEN response'.error = "over_capacity" /\ memories' = memories
             ELSE response'.ok]_vars

----------------------------------------------------------------------------
(* Claims checked under SpecGraph.                                          *)

\* the ids of memories that were inserted and have since been removed
RemovedIds == (1..(nextId - 1)) \ DOMAIN memories

\* C1: once a memory is removed (deleteMemory or the cleanup sweep) no row of
\* memories, memories_fts, memory_links (source or target), memory_entities or
\* triples (source_memory_id) refers to its id.
C1_NoDanglingReference ==
    \A id \in RemovedIds :
        /\ \A e \in memories_fts : e.rowid # id
        /\ \A l \in memory_links : l.source_id # id /\ l.target_id # id
        /\ \A m \in memory_entities : m.memory_id # id
        /\ \A t \in triples : t.source_memory_id # id

\* C1 witness: the cleanup sweep removed a memory whose mentions went with it
\* (an entity still counts a mention but no memory_entities row names it),
\* while the surviving memory keeps its link, its mentions and its triple.
C1_Witness ==
    /\ response.op = "cleanupDecayedMemories"
    /\ response.count = 1
    /\ RemovedIds # {}
    /\ \E e \in DOMAIN entities :
          /\ entities[e].memory_count >= 1
          /\ ~ \E m \in memory_entities : m.entity_id = e
    /\ \E i \in DOMAIN memories :
          /\ \E l \in memory_links : l.source_id = i /\ l.target_id = i
          /\ \E t \in triples : t.source_memory_id = i
          /\ \E m \in memory_entities : m.memory_id = i

----------------------------------------------------------------------------
(* Claims checked under SpecConc.                                           *)

\* what one call, run alone, makes of a row
ApplyCall(row, call) ==
    IF call.op = "accessMemory"
    THEN AccessUpdate(row, calculateReinforcementBoost(row), now)
    ELSE IF CheckRow(PatchRow(row, call.updates)) THEN PatchRow(row, call.updates) ELSE row

\* the rows the calls of the processes in S leave when run one after another,
\* in every order
RECURSIVE SerialOutcomes(_, _)
SerialOutcomes(row, S) ==
    IF S = {} THEN {row}
    ELSE UNION {SerialOutcomes(ApplyCall(row, inflight[p]), S \ {p}) : p \in S}

CallsOn(id) == {p \in Procs : inflight[p].pc # "idle" /\ inflight[p].id = id}

\* C3: when the accessMemory and updateMemory calls that interleaved on one id
\* have all returned, the row is the one some serial order of those calls
\* produces: no access_count increment and no salience change is lost.
C3_AccessLinearizable ==
    \A id \in DOMAIN memories :
        (CallsOn(id) # {} /\ \A p \in CallsOn(id) : inflight[p].pc = "done")
            => memories[id] \in SerialOutcomes(BaseRow(id), CallsOn(id))

----------------------------------------------------------------------------
(* Claims checked under SpecSearch.                                         *)

\* the rows that hold what remember was given: same title, content, project
SameMemory(input) ==
    {i \in DOMAIN memories :
        /\ memories[i].title = input.title
        /\ memories[i].content = truncateContent(input.content)
        /\ memories[i].project = input.project}

\* C7: remember called again with the title, content and project of a memory
\* already remembered returns that memory's id, adds no row (exactly one row
\* holds that title and project) and leaves its access_count at 0.
C7_RememberTwiceDedups ==
    [][\A k \in 1..Len(RememberInputs) :
          (SameMemory(RememberInputs[k]) # {} /\ executeRemember(RememberInputs[k])) =>
             /\ response'.id \in SameMemory(RememberInputs[k])
             /\ memories' = memories
             /\ Cardinality(SameMemory(RememberInputs[k])) = 1
             /\ memories'[response'.id].access_count = 0]_vars

IsPrefix(s, t) == Len(s) <= Len(t) /\ SubSeq(t, 1, Len(s)) = s

\* C8: on an unchanged store a search returns one list, and the list for
\* limit L is a prefix of the list for limit L + k, for every filter set.
C8_LimitPrefix ==
    \A f \in 1..Len(SearchFilters), L \in 1..MaxLimit, k \in 0..MaxLimit :
        IsPrefix(Search(WithLimit(SearchFilters[f], L)),
                 Search(WithLimit(SearchFilters[f], L + k)))

\* a memory the plan's detectGlobalPattern marks global
IsGlobal(row) == detectGlobalPattern(row.content, row.category, row.tags)

\* C9: a search with project filter P returns a memory only if its project is
\* P or, with include_global, the memory is global; with include_global every
\* global memory that meets the other filters is returned when neither the
\* limit nor the decay floor cuts it; a project-scoped memory of another
\* project is never returned.
C9_ProjectFilter ==
    [][\A f \in 1..Len(SearchFilters), L \in 1..MaxLimit :
          LET options == WithLimit(SearchFilters[f], L)
              global == Has(options, "includeGlobal") /\ options.includeGlobal
              returned == {response'.results[j] : j \in 1..Len(response'.results)}
          IN  (Has(options, "project") /\ searchMemories(options)) =>
                /\ \A i \in returned :
                      \/ memories[i].project = options.project
                      \/ global /\ IsGlobal(memories[i])
                /\ \A i \in DOMAIN memories :
                      (/\ global
                       /\ IsGlobal(memories[i])
                       /\ SearchWhere(memories[i], RemoveKey(options, "project"))
                       /\ L >= Cardinality(DOMAIN memories)
                       /\ Has(options, "includeDecayed") /\ options.includeDecayed)
                          => i \in returned]_vars

----------------------------------------------------------------------------
(* Claims checked under SpecWrites.                                         *)

StoredContent(content) ==
    IF content.length <= MAX_CONTENT_SIZE THEN content
    ELSE [text |-> content.text, length |-> MAX_CONTENT_SIZE, marker |-> TRUE]

\* C12: after addMemory or updateMemory stored a content, the row holds the
\* given content unchanged when it is at most 10 KiB long and its first 10 KiB
\* followed by the marker when it is longer; no stored content exceeds 10 KiB
\* plus the marker.
C12_ContentCapped ==
    [][/\ \A k \in 1..Len(WriteInputs) :
             (addMemory(WriteInputs[k]) /\ response'.ok) =>
                memories'[response'.id].content = StoredContent(WriteInputs[k].content)
       /\ \A id \in Ids, k \in 1..Len(WritePatches) :
             (/\ updateMemory(id, WritePatches[k])
              /\ response'.ok
              /\ Has(WritePatches[k], "content")) =>
                memories'[id].content = StoredContent(WritePatches[k].content)
       /\ \A i \in DOMAIN memories' :
             memories'[i].content.length <= MAX_CONTENT_SIZE]_vars

----------------------------------------------------------------------------
(* Claims checked under SpecCleanup.                                        *)

\* the short_term memories whose decayed score is below the threshold
DecayedShortTerm ==
    {i \in DOMAIN memories :
        /\ memories[i].type = "short_term"
        /\ calculateDecayedScore(memories[i], now) < salienceThreshold}

\* C13: a cleanup sweep deletes exactly the short_term memories whose decayed
\* score is below the threshold, every one of them however many short_term
\* memories the store holds, no long_term or episodic memory, and returns the
\* number of rows it deleted.
C13_CleanupExact ==
    [][cleanupDecayedMemories_scaled =>
          /\ DOMAIN memories' = DOMAIN memories \ DecayedShortTerm
          /\ response'.count = Cardinality(DecayedShortTerm)]_vars

----------------------------------------------------------------------------
(* Claims about the event bus: C14 is checked under SpecGraph, C15 under    *)
(* SpecWrites.                                                              *)

\* the positions in a list of events that hold an event of the given kind
EventsOfType(evs, type) == {k \in 1..Len(evs) : evs[k].type = type}

\* C14: every step that removes memories (deleteMemory, a cleanup sweep)
\* publishes exactly one memory_deleted event for each removed id, and no
\* memory_deleted event for an id that was not removed.
C14_DeletedEvents ==
    [][LET removed == DOMAIN memories \ DOMAIN memories'
           deleted == EventsOfType(events', "memory_deleted")
       IN  /\ \A id \in removed : Cardinality({k \in deleted : events'[k].id = id}) = 1
           /\ \A k \in deleted : events'[k].id \in removed]_vars

----------------------------------------------------------------------------
(* Claims about the embedding model loader: C16 is checked under            *)
(* SpecLoader, C17 under SpecLoaderFair.                                    *)

Pending == {k \in 1..Len(loads) : loads[k] = "pending"}

Awaiting(c) == callers[c].pc = "awaiting"

\* C16: whatever the interleaving of the callers, at most one model load is
\* pending at any time, a call that arrives while a load is pending starts no
\* load and waits on that pending load, and no call starts a load once a load
\* has succeeded.
C16_SingleLoad ==
    /\ [](Cardinality(Pending) <= 1)
    /\ [][\A c \in Callers :
             generateEmbedding_call(c) =>
                /\ Pending # {} =>
                      /\ loads' = loads
                      /\ Awaiting(c)'
                      /\ callers'[c].promise \in Pending
                /\ (\E k \in 1..Len(loads) : loads[k] = "fulfilled") =>
                      loads' = loads]_vars

\* C16 witness: one load was ever started; a caller that joined it was
\* resolved by it and another caller was served the loaded model afterwards.
C16_Witness ==
    /\ loads = <<"fulfilled">>
    /\ embeddingPipeline = "model"
    /\ \E c \in Callers, d \in Callers :
          /\ callers[c] = [pc |-> "resolved", via |-> "shared", promise |-> 1]
          /\ callers[d] = [pc |-> "resolved", via |-> "cached", promise |-> 0]

\* C17: when a load is rejected, the call that started it resets the loader
\* (no model, not loading, no promise) and is rejected, every call that joined
\* the load is rejected too and none of them waits forever, and a call made
\* after the starter of the failed load has resumed starts a fresh load.
C17_LoadFailure ==
    /\ [][\A c \in Callers :
             (getEmbeddingPipeline_resume(c) /\ loads[callers[c].promise] = "rejected") =>
                /\ embeddingPipeline' = NULL
                /\ ~isLoading'
                /\ loadPromise' = 0
                /\ callers'[c].pc = "rejected"]_vars
    /\ [][\A c \in Callers :
             (loadPromise_then(c) /\ loads[callers[c].promise] = "rejected") =>
                callers'[c].pc = "rejected"]_vars
    /\ [][\A c \in Callers :
             (/\ generateEmbedding_call(c)
              /\ embeddingPipeline = NULL
              /\ \E k \in 1..Len(loads) : loads[k] = "rejected"
              /\ \A d \in Callers : ~(Awaiting(d) /\ callers[d].via = "load")) =>
                /\ Len(loads') = Len(loads) + 1
                /\ callers'[c].promise = Len(loads')
                /\ loads'[Len(loads')] = "pending"]_vars
    /\ \A c \in Callers :
          (Awaiting(c) /\ loads[callers[c].promise] = "rejected")
             ~> (callers[c].pc = "rejected")

\* C17 witness: the first load failed, a caller that had joined it holds the
\* rejection, and another call has started a second load that is pending.
C17_Witness ==
    /\ loads = <<"rejected", "pending">>
    /\ isLoading
    /\ loadPromise = 2
    /\ \E c \in Callers, d \in Callers :
          /\ callers[c] = [pc |-> "rejected", via |-> "shared", promise |-> 1]
          /\ callers[d] = [pc |-> "awaiting", via |-> "load", promise |-> 2]

----------------------------------------------------------------------------
(* Claims about merging entities, checked under SpecMerge.                  *)

SeqSet(seq) == {seq[k] : k \in 1..Len(seq)}

\* triple t with keepId in every place that held removeId
Rewired(t, keepId, removeId) ==
    [t EXCEPT !.subject_id = IF @ = removeId THEN keepId ELSE @,
              !.object_id = IF @ = removeId THEN keepId ELSE @]

\* what a merge leaves behind, with aliasSet the alias set expected of keepId
MergeOutcome(keepId, removeId, aliasSet) ==
    /\ removeId \notin DOMAIN entities'
    /\ \A t \in triples' : t.subject_id # removeId /\ t.object_id # removeId
    /\ \A e \in memory_entities' : e.entity_id # removeId
    /\ \A t \in triples :
          (t.subject_id = removeId \/ t.object_id = removeId) =>
             Rewired(t, keepId, removeId) \in triples'
    /\ \A e \in memory_entities :
          e.entity_id = removeId => [e EXCEPT !.entity_id = keepId] \in memory_entities'
    /\ SeqSet(entities'[keepId].aliases) = aliasSet
    /\ entities'[keepId].memory_count =
          entities[keepId].memory_count + entities[removeId].memory_count

BothAliases(keepId, removeId) ==
    SeqSet(entities[keepId].aliases) \cup SeqSet(entities[removeId].aliases)
       \cup {entities[removeId].name}

\* C18 as stated: a merge of two distinct existing entities that succeeds
\* removes removeId and every reference to it, leaves each triple and mention
\* of removeId with keepId in its place, gives keepId the union of both alias
\* sets plus the removed name and the sum of both counts; a merge that fails
\* changes nothing.
C18_MergeAsStated ==
    [][\A keepId \in EntityIds, removeId \in EntityIds, fault \in BOOLEAN :
          (/\ mergeEntities(keepId, removeId, fault)
           /\ keepId # removeId
           /\ {keepId, removeId} \subseteq DOMAIN entities) =>
             IF response'.ok
             THEN MergeOutcome(keepId, removeId, BothAliases(keepId, removeId))
             ELSE UNCHANGED <<entities, triples, memory_entities>>]_vars

\* C18 amended: as stated, except that keepId's aliases are the union of both
\* alias sets plus the removed name without keepId's own name.
C18_MergeOutcome ==
    [][\A keepId \in EntityIds, removeId \in EntityIds, fault \in BOOLEAN :
          (/\ mergeEntities(keepId, removeId, fault)
           /\ keepId # removeId
           /\ {keepId, removeId} \subseteq DOMAIN entities) =>
             IF response'.ok
             THEN MergeOutcome(keepId, removeId,
                     BothAliases(keepId, removeId) \ {entities[keepId].name})
             ELSE UNCHANGED <<entities, triples, memory_entities>>]_vars

\* C18 witness: the library ReactJS and the service Redis it uses were merged:
\* the triple between them now joins the kept entity to itself, the kept
\* entity carries the removed name as an alias, both counts and a mention.
C18_Witness ==
    /\ response.op = "mergeEntities"
    /\ response.ok
    /\ response.removeId \notin DOMAIN entities
    /\ response.id \in DOMAIN entities
    /\ \E t \in triples :
          t.subject_id = response.id /\ t.object_id = response.id /\ t.predicate = "uses"
    /\ \E e \in memory_entities : e.entity_id = response.id
    /\ entities[response.id].aliases = <<Redis>>
    /\ entities[response.id].memory_count >= 2

\* C19: a mergeEntities(A, B) that directly follows a committed
\* mergeEntities(A, B) leaves entities, triples and memory_entities as the
\* first one left them.
C19_MergeTwice ==
    [][\A keepId \in EntityIds, removeId \in EntityIds, fault \in BOOLEAN :
          (/\ response.op = "mergeEntities"
           /\ response.ok
           /\ response.id = keepId
           /\ response.removeId = removeId
           /\ mergeEntities(keepId, removeId, fault)) =>
             UNCHANGED <<entities, triples, memory_entities>>]_vars

\* C19 witness: a merge was called on an entity that an earlier merge had
\* removed; the kept entity holds the merged aliases and counts.
C19_Witness ==
    /\ response.op = "mergeEntities"
    /\ ~response.ok
    /\ response.removeId \notin DOMAIN entities
    /\ response.removeId < nextEntityId
    /\ response.id \in DOMAIN entities
    /\ entities[response.id].aliases # <<>>
    /\ entities[response.id].memory_count >= 2

\* a triple with removeId replaced by keepId at both ends
Reassigned(t, keepId, removeId) ==
    [t EXCEPT !.subject_id = IF @ = removeId THEN keepId ELSE @,
              !.object_id = IF @ = removeId THEN keepId ELSE @]

\* C29: for every pair of ids, keep = remove included, after
\* mergeEntities(keep, remove) returns the entity keep still exists, and
\* every triple and every memory_entities row that referred to keep before
\* the call still refers to it.
C29_KeepSurvives ==
    [][\A keepId \in EntityIds, removeId \in EntityIds, fault \in BOOLEAN :
          (keepId \in DOMAIN entities /\ mergeEntities(keepId, removeId, fault)) =>
             /\ keepId \in DOMAIN entities'
             /\ \A t \in triples :
                   keepId \in {t.subject_id, t.object_id} =>
                      t \in triples' \/ Reassigned(t, keepId, removeId) \in triples'
             /\ \A e \in memory_entities :
                   e.entity_id = keepId => e \in memory_entities']_vars

----------------------------------------------------------------------------
(* Claims about the resolver, checked under SpecResolve.                    *)

\* entity i matches (name, type) at stage 1 (exact), 2 (case-insensitive),
\* 3 (alias) or 4 (fuzzy)
MatchesAt(stage, i, name, type) ==
    /\ entities[i].type = type
    /\ CASE stage = 1 -> entities[i].name = name
         [] stage = 2 -> toLowerCase(entities[i].name) = toLowerCase(name)
         [] stage = 3 -> \E k \in 1..Len(entities[i].aliases) :
                            toLowerCase(entities[i].aliases[k]) = toLowerCase(name)
         [] stage = 4 -> /\ Len(name) > 5
                         /\ levenshtein(toLowerCase(name), toLowerCase(entities[i].name)) <= 2

\* the stages at which some entity matches
StagesHit(name, type) ==
    {stage \in 1..4 : \E i \in DOMAIN entities : MatchesAt(stage, i, name, type)}

\* C20: resolveEntity returns an entity that matches at the first stage, in
\* the order exact, case-insensitive, alias, fuzzy, at which any entity
\* matches, and inserts the name as a new entity only when no stage matches;
\* a call that directly follows a call with the same name and type returns
\* the same id and inserts nothing.
C20_ResolveOrder ==
    [][\A k \in 1..Len(ResolveInputs) :
          LET name == ResolveInputs[k].name
              type == ResolveInputs[k].type
              hit == StagesHit(name, type)
          IN  resolveEntity_call(name, type) =>
                 /\ IF hit = {}
                    THEN /\ response'.id \notin DOMAIN entities
                         /\ DOMAIN entities' = DOMAIN entities \cup {response'.id}
                         /\ entities'[response'.id].name = name
                         /\ entities'[response'.id].type = type
                    ELSE /\ DOMAIN entities' = DOMAIN entities
                         /\ MatchesAt(FirstId(hit), response'.id, name, type)
                 /\ (response.op = "resolveEntity" /\ response.name = name
                       /\ response.type = type) =>
                       /\ response'.id = response.id
                       /\ DOMAIN entities' = DOMAIN entities]_vars

\* C20 witness: ReactJSX was resolved to the entity ReactJS by distance and
\* is now one of its aliases, while the five-letter names Redis and Redux,
\* two edits apart, are two entities.
C20_Witness ==
    /\ response.op = "resolveEntity"
    /\ \E i \in DOMAIN entities :
          entities[i].name = ReactJS /\ includes(entities[i].aliases, ReactJSX)
    /\ \E i \in DOMAIN entities, j \in DOMAIN entities :
          entities[i].name = Redis /\ entities[j].name = Redux

\* the memory_entities rows that refer to entity i
MentionsOf(i) == {m \in memory_entities : m.entity_id = i}

\* C21: after any sequence of extraction runs, a repeated run for the same
\* memory included, each entity's memory_count equals the number of
\* memory_entities rows that refer to it.
C21_CountIsMentions ==
    \A i \in DOMAIN entities : entities[i].memory_count = Cardinality(MentionsOf(i))

\* C22: a processExtractionResult that fails part-way leaves none of the rows
\* it wrote: entities, memory_entities and triples are as they were before.
C22_ExtractionAllOrNothing ==
    [][\A id \in Ids, k \in 1..Len(ExtractionResults) :
          (processExtractionResult(ExtractionResults[k], id) /\ ~response'.ok) =>
             UNCHANGED <<entities, triples, memory_entities>>]_vars

----------------------------------------------------------------------------
(* Claims about patching and the access time, checked under SpecPatch.      *)

\* the fields of the Memory object of row id that differ between two tables
FieldsChanged(before, after, id) ==
    {f \in DOMAIN rowToMemory(after[id]) : rowToMemory(after[id])[f] # rowToMemory(before[id])[f]}

\* an updateMemory(id, patch) that ran its UPDATE returns, through
\* getMemoryById, the patched value of every field of the patch, and changes
\* no field outside `free` besides; an empty patch or an unknown id changes
\* no row
PatchFrame(id, patch, free) ==
    IF id \notin DOMAIN memories \/ DOMAIN patch \cap PatchFields = {}
    THEN memories' = memories
    ELSE response'.ok =>
            /\ \A f \in DOMAIN patch : rowToMemory(memories'[id])[f] = patch[f]
            /\ FieldsChanged(memories, memories', id) \subseteq DOMAIN patch \cup free
            /\ \A other \in DOMAIN memories \ {id} : memories'[other] = memories[other]

\* C23 as stated: after updateMemory(id, patch), getMemoryById(id) returns
\* the patched value for every field named in the patch and the earlier value
\* for every other field; an empty patch or an unknown id changes no row.
C23_PatchAsStated ==
    [][\A id \in Ids, k \in 1..Len(FramePatches) :
          updateMemory(id, FramePatches[k]) => PatchFrame(id, FramePatches[k], {})]_vars

\* C23 amended: as stated, except that decayedScore follows a patched
\* salience, no decayed score being stored for the memory.
C23_PatchFrame ==
    [][\A id \in Ids, k \in 1..Len(FramePatches) :
          updateMemory(id, FramePatches[k]) =>
             /\ PatchFrame(id, FramePatches[k],
                   IF Has(FramePatches[k], "salience") THEN {"decayedScore"} ELSE {})
             /\ (id \in DOMAIN memories' /\ response'.ok) =>
                   rowToMemory(memories'[id]).decayedScore = memories'[id].salience]_vars

\* C23 witness: a memory added as short_term with tag-free input was
\* reinforced, then patched in title and tags: the new title and tags are
\* returned, the access count and the type are the earlier ones.
C23_Witness ==
    /\ response.op = "updateMemory"
    /\ response.ok
    /\ response.id \in DOMAIN memories
    /\ LET memory == rowToMemory(memories[response.id])
       IN  /\ memory.title = "Use MySQL"
           /\ memory.tags = <<"db", "sql">>
           /\ memory.accessCount >= 1
           /\ memory.type = "short_term"
           /\ memory.project = NULL

\* C24: every step that changes a stored memory sets its last_accessed to
\* the time of the change.
C24_LastAccessedFollows ==
    [][\A id \in DOMAIN memories \cap DOMAIN memories' :
          memories'[id] # memories[id] => memories'[id].last_accessed = now]_vars

----------------------------------------------------------------------------
(* Claims about the WebSocket endpoint, checked under SpecEvents.           *)

\* C25: on every accepted connection the first frame is initial_state, no
\* other frame on it is an initial_state, and while the connection is open
\* the frames after it are exactly the events published since the connection
\* was accepted, in publish order.
C25_FramesFollowBus ==
    \A c \in Conns :
        sockets[c].readyState # "CONNECTING" =>
            /\ sockets[c].frames # <<>>
            /\ sockets[c].frames[1] = initial_state
            /\ \A k \in 2..Len(sockets[c].frames) : sockets[c].frames[k] # initial_state
            /\ sockets[c].readyState = "OPEN" =>
                  Tail(sockets[c].frames) = SubSeq(bus, sockets[c].since + 1, Len(bus))

\* C25 witness: two connections are open; the one accepted after the first
\* event holds the initial state and the second event, the earlier one the
\* initial state and both events.
C25_Witness ==
    \E c \in Conns, d \in Conns :
        /\ sockets[c].readyState = "OPEN" /\ sockets[d].readyState = "OPEN"
        /\ Len(bus) = 2 /\ bus[1] # bus[2]
        /\ sockets[c].frames = <<initial_state, bus[1], bus[2]>>
        /\ sockets[d].frames = <<initial_state, bus[2]>>

----------------------------------------------------------------------------
(* Claims about contradiction links in search results, checked under        *)
(* SpecContra.                                                              *)

\* the memories a contradicts link joins to memory id, from either end
Contradicting(id) ==
    {l.target_id : l \in {m \in memory_links :
                            m.relationship = "contradicts" /\ m.source_id = id}}
    \cup {l.source_id : l \in {m \in memory_links :
                            m.relationship = "contradicts" /\ m.target_id = id}}

\* C26: every search result whose memory is joined to another by a
\* contradicts link carries a contradictions list with an entry for that
\* other memory, and a result without such a link carries none.
C26_ContradictionsAttached ==
    [][\A k \in 1..Len(ContraSearches) :
          searchMemories(ContraSearches[k]) =>
             \A n \in 1..Len(Search(ContraSearches[k])) :
                LET result == Search(ContraSearches[k])[n] IN
                IF Contradicting(result.id) = {}
                THEN ~Has(result, "contradictions")
                ELSE /\ Has(result, "contradictions")
                     /\ {c.memoryId : c \in result.contradictions} = Contradicting(result.id)]_vars

----------------------------------------------------------------------------
(* Claims about the graph query tools, checked under SpecQuery.             *)

Distinct(seq) == \A i, j \in 1..Len(seq) : seq[i] = seq[j] => i = j

\* the traversal property with the two defaults as parameters: each tool
\* returns, expands no entity twice, follows no path longer than its depth
\* cap, and without a depth answers as it does with the default depth
Traversal(queryDefault, explainDefault) ==
    /\ \A k \in 1..Len(QueryArgs) :
          handleGraphQuery(QueryArgs[k]) =>
             LET args == QueryArgs[k]
                 cap == IF Has(args, "depth") THEN args.depth ELSE queryDefault
             IN  /\ Distinct(response'.expanded)
                 /\ \A c \in response'.connections : c.depth <= cap
                 /\ ~Has(args, "depth") =>
                       GraphQuery(args) = GraphQuery(args @@ [depth |-> queryDefault])
    /\ \A k \in 1..Len(ExplainArgs) :
          handleGraphExplain(ExplainArgs[k]) =>
             LET args == ExplainArgs[k]
                 cap == IF Has(args, "maxDepth") THEN args.maxDepth ELSE explainDefault
             IN  /\ Distinct(response'.expanded)
                 /\ Len(response'.path) <= cap + 1
                 /\ ~Has(args, "maxDepth") =>
                       GraphExplain(args) = GraphExplain(args @@ [maxDepth |-> explainDefault])

\* C27 as stated: on every entity graph, cycles and self-loops included,
\* handleGraphQuery and handleGraphExplain terminate, expand each entity at
\* most once and never follow a path longer than the depth cap, which is 4
\* for both when the caller gives no depth.
C27_TraversalAsStated == [][Traversal(4, 4)]_vars

\* C27 amended: the same, with the depth cap defaulting to 2 in
\* handleGraphQuery and to 4 in handleGraphExplain.
C27_Traversal == [][Traversal(2, 4)]_vars

\* handleGraphQuery has answered without a depth from the head of the chain
\* of six entities: the self-loop and the cycle are in the graph, three
\* entities were expanded, and the connections stop at depth 2
C27_Witness ==
    /\ response.op = "handleGraphQuery" /\ response.ok
    /\ Cardinality(DOMAIN entities) = 6
    /\ \E t \in triples : t.subject_id = t.object_id /\ t.subject_id = response.id
    /\ \E t, u \in triples : t.subject_id = u.object_id /\ t.object_id = u.subject_id
                               /\ t.subject_id # t.object_id
    /\ Len(response.expanded) = 3
    /\ {c.depth : c \in response.connections} = {1, 2}

----------------------------------------------------------------------------
(* Claims about the stop hook, checked under SpecStop.                      *)

\* the last assistant message of the input would block the stop
Notable(stdin) ==
    /\ stdin.kind = "json" /\ stdin.data.t = "object"
    /\ LET lastMessage == getLastAssistantMessage(stdin.data) IN
       /\ lastMessage.t = "string"
       /\ lastMessage.text.length >= 50
       /\ detectNotableContent(lastMessage.text) # NULL

\* the input cannot be read or parsed, or makes main() throw
Faulty(stdin) ==
    \/ stdin.kind \in {"unreadable", "invalid"}
    \/ stdin.kind = "json" /\ stdin.data.t = "null"
    \/ /\ stdin.kind = "json" /\ stdin.data.t = "object"
       /\ ~Continuing(stdin)
       /\ getLastAssistantMessage(stdin.data).t # "string"

\* C28: the stop hook exits 0 whenever its input has stop_hook_active set to
\* true, whatever the last assistant message contains, so it never blocks
\* the stop that follows a blocked one; it exits with code 2 only after it
\* has written its message to stderr; and it exits 0 on unreadable input or
\* an internal error.
C28_StopHook ==
    /\ [](stopHook.pc # "none" /\ Continuing(stopHook.stdin) =>
             stopHook.pc = "exited" /\ stopHook.exit = 0)
    /\ [][exit_2 => stopHook.previous # 2]_vars
    /\ [](stopHook.pc = "exited" /\ stopHook.exit = 2 =>
             stopHook.stderr = <<detectNotableContent(
                 getLastAssistantMessage(stopHook.stdin.data).text)>>)
    /\ [](stopHook.pc # "none" /\ Faulty(stopHook.stdin) =>
             stopHook.pc = "exited" /\ stopHook.exit = 0)

\* the stop after a blocked one: its input has stop_hook_active set and a
\* last assistant message that would block, and the hook has exited 0
C28_Witness ==
    /\ stopHook.pc = "exited" /\ stopHook.exit = 0 /\ stopHook.previous = 2
    /\ Continuing(stopHook.stdin)
    /\ Notable(stopHook.stdin)

----------------------------------------------------------------------------
(* Claims about GET /api/memories, checked under SpecPage.                  *)

\* the full list of the memories that match the filters of the request, in
\* the order of its mode
Matching(req) == Filtered(Fetched(req, Cardinality(Rows) + 1), req)

\* C30: for GET /api/memories with any combination of project, type and
\* category filters and any offset and limit, the returned page holds
\* exactly the memories at positions offset to offset + limit - 1 of the
\* full list of memories that match the filters, and pagination.hasMore is
\* true exactly when a matching memory exists at position offset + limit or
\* later.
C30_PageOfMatching ==
    [][\A k \in 1..Len(PageRequests) :
          get_api_memories(PageRequests[k]) =>
             LET req == PageRequests[k] IN
             /\ response'.memories = Slice(Matching(req), PageOffset(req), PageLimit(req))
             /\ response'.pagination.hasMore =
                   (Len(Matching(req)) > PageOffset(req) + PageLimit(req))]_vars

====
